---------------------------- MODULE Spec2Model ----------------------------
(***************************************************************************)
(* Request orchestration core of shadowbot: the retry helper, the          *)
(* per-endpoint execution lanes, the daily/monthly quota counters and the  *)
(* mention polling loop.                                                   *)
(*                                                                         *)
(* Time is the wall clock Date.now() in milliseconds; it advances in steps *)
(* of one second, the granularity of the provider's rate-limit reset       *)
(* (error.rateLimit.reset is in seconds and is multiplied by 1000).        *)
(* A timer set with setTimeout(f, d) at time t may fire at any time        *)
(* >= t + d: the event loop gives no upper bound.                          *)
(***************************************************************************)
EXTENDS Integers, Sequences, FiniteSets, TLC

VARIABLES
    now,            \* Date.now()
    \* ---- TwitterService.retryFetch (one call in progress)
    rImpl,          \* which retryFetch of the repository runs
    rPc,            \* position of the call
    rI,             \* loop index i
    rAttempts,      \* attempts made: <<[at, out]>>, out = NoOutcome while in flight
    rWaitTime,      \* waitTime computed in the catch block
    rTimer,         \* due time of the pending setTimeout, or NoTimer
    rStoreFailed,   \* whether a storeRateLimit write failed
    rResult,        \* settled result of the call
    \* ---- RateLimitManager and setupPolling of src/xHandler.js
    qLimits,        \* this.limits: endpoint -> [set, reset]
    qQueues,        \* this.queues: endpoint -> "none" | "resolved"
    qOps,           \* the operations submitted, in submission order
    qStarted,       \* ids of the operations in the order operation() was first invoked
    xsPc,           \* setupPolling: "idle", "awaiting", "scheduled", "rejected"
    xsOp,           \* id of the 'mentions' operation setupPolling awaits (0: none)
    xsTimer,        \* pollingTimeout: due time of the pending timer, or NoTimer
    \* ---- quota counters of src/modules/xHandler/TwitterService.js
    today,          \* new Date(): [d: getDate(), m: getMonth()]
    svc,            \* the service's counters and reset stamps
    inflight,       \* operations past their quota check, awaiting the API: kind -> number
    storing,        \* operations whose API call succeeded and that have not returned yet
    nChecks,        \* quota checks made so far
    lastCheck,      \* the quota check just made: what it saw and what it decided
    sentPosts,      \* posts successfully posted on the calendar day `today`
    sentReplies,    \* replies successfully posted on the calendar day `today`
    sentImages,     \* image posts of postImage successfully posted on that day
    sentReads,      \* timeline reads that succeeded in the calendar month of `today`
    dayChanged,     \* getDate() changed and no post/reply check was made since
    warm,           \* calls still to be made one after the other before any other use
    \* ---- mention polling of src/modules/xHandler
    pImpl,          \* which pollMentionsAndReplies of the repository runs
    pChains,        \* the poll() chains started so far: chain -> [pc, left, timer, ...]
    spRounds,       \* rounds of setupPolling run so far
    spTimer,        \* pollingTimeout: due time of the pending timer, or NoTimer
    spSched,        \* what each round of setupPolling scheduled: <<[interval, streak, code]>>
    spCleaned,      \* cleanup() has been called
    \* ---- one poll() chain seen mention by mention
    mPc,            \* "idle", "identifying", "fetching", "handling", "saving", "pacing"
    mUserId,        \* userId of poll()'s own getCachedUserId call
    mSince,         \* since_id of the userMentionTimeline call in flight
    mBatch,         \* mentions.data.data of the cycle: sequence of mention ids
    mIdx,           \* position of the for loop in mBatch
    lastProcessedMentionId, \* service.lastProcessedMentionId (0: null)
    mLog,           \* what the cycle did with each mention it reached
    mEnd,           \* how the latest cycle left the try block
    mCycles,        \* cycles started so far
    mReplies,       \* replies posted so far: mention id -> number
    \* ---- calls made through a retry helper, attempt by attempt
    hCalls,         \* call -> [helper, pc, attempts, odd]
    \* ---- getCachedUserId of src/modules/xHandler/TwitterService.js
    userCache,      \* this.userCache: [userId, lastFetched]
    idCalls,        \* call -> [pc, result, remote]
    \* ---- postNFTImage as documented in CONTRIBUTING.md
    postedNFTs,     \* this.postedNFTs: the mints recorded as posted
    nftCalls,       \* call -> [mint, pc, result]
    nftPosts,       \* tweets made for each mint: mint -> number
    \* ---- AIHandler (src/src/aiHandler.js, src/aiHandler.js)
    aiImpl,         \* which of the two files the handler is
    aiRequests,     \* this.rateLimit.requests
    aiCredits,      \* this.rateLimit.creditsRemaining
    aiUpdating,     \* updateLimits() calls in flight
    aiLastRequest,  \* this.rateLimit.lastRequest
    aiCalls,        \* call -> [pc, timer, minInterval]
    aiReleases,     \* the times at which waitForRateLimit let a request go, in order
    \* ---- handleMention / replyToTweet of src/xHandler.js on the 'reply' lane
    nCalls,         \* handleMention call -> [pc, inner, retries, result]
    nLimit,         \* this.limits has an entry for 'reply'
    \* ---- generateTweet of src/services/promptService.js
    gt,             \* the call: [pc, opts, attempt, completed, text, result]
    \* ---- handleMessage of src/shadowbot.js and of unnamed/part_010
    bImpl,          \* which of the two files the bot is
    messageCache,   \* this.messageCache: the messages, by number
    lastProcessed,  \* this.lastProcessed (this.lastResponseTime in part_010)
    messageHashes,  \* this._messageHashes of part_010
    nextUpdateTime, \* NEXT_UPDATE_TIME of part_010
    hashCleanupAt,  \* when the interval timer that clears the hashes is next due
    bCalls,         \* message -> [pc, prompt] of its handleMessage call
    bReceived,      \* MessageCreate events delivered so far
    bPrompted,      \* the messages that were part of the prompt of a generateResponse call
    \* ---- TwitterService.handleMention(mention), the method of the class
    dPc,            \* the call in flight: "idle" (none) or "saving"
    dCalls,         \* calls made so far
    direct          \* the latest call: [id, outcome, replied, advanced, written]

clockVars == <<now>>
retryVars == <<rImpl, rPc, rI, rAttempts, rWaitTime, rTimer, rStoreFailed, rResult>>
queueVars == <<qLimits, qQueues, qOps, qStarted, xsPc, xsOp, xsTimer>>
quotaVars == <<today, svc, inflight, storing, nChecks, lastCheck, sentPosts, sentReplies, sentImages,
               sentReads,
               dayChanged, warm>>
pollVars == <<pImpl, pChains, spRounds, spTimer, spSched, spCleaned>>
mentionVars == <<mPc, mUserId, mSince, mBatch, mIdx, lastProcessedMentionId, mLog, mEnd,
                 mCycles, mReplies>>
helperVars == <<hCalls>>
identityVars == <<userCache, idCalls>>
nftVars == <<postedNFTs, nftCalls, nftPosts>>
aiVars == <<aiImpl, aiRequests, aiCredits, aiUpdating, aiLastRequest, aiCalls,
           aiReleases>>
nestVars == <<nCalls, nLimit>>
tweetVars == <<gt>>
chatVars == <<bImpl, messageCache, lastProcessed, messageHashes, nextUpdateTime,
             hashCleanupAt, bCalls,
             bReceived, bPrompted>>
directVars == <<dPc, dCalls, direct>>
vars == <<now, retryVars, queueVars, quotaVars, pollVars, mentionVars, helperVars,
          identityVars,
          nftVars,
          aiVars,
          nestVars,
          tweetVars,
          chatVars,
          directVars>>

otherThanRetry == <<queueVars, quotaVars, pollVars, mentionVars, helperVars,
    identityVars,
    nftVars,
    aiVars,
    nestVars,
    tweetVars,
    chatVars,
    directVars>>
otherThanQueue == <<retryVars, quotaVars, pollVars, mentionVars, helperVars,
    identityVars,
    nftVars,
    aiVars,
    nestVars,
    tweetVars,
    chatVars,
    directVars>>
otherThanQuota == <<now, retryVars, queueVars, pollVars, mentionVars, helperVars,
    identityVars,
    nftVars,
    aiVars,
    nestVars,
    tweetVars,
    chatVars,
    directVars>>
otherThanPoll == <<retryVars, queueVars, quotaVars, mentionVars, helperVars,
    identityVars,
    nftVars,
    aiVars,
    nestVars,
    tweetVars,
    chatVars,
    directVars>>
otherThanMention == <<now, retryVars, queueVars, quotaVars, pollVars, helperVars,
    identityVars,
    nftVars,
    aiVars,
    nestVars,
    tweetVars,
    chatVars,
    directVars>>
otherThanMentionAndDirect == <<now, retryVars, queueVars, quotaVars, pollVars, helperVars,
    identityVars,
    nftVars,
    aiVars,
    nestVars,
    tweetVars,
    chatVars>>
otherThanHelper == <<now, retryVars, queueVars, quotaVars, pollVars, mentionVars,
    identityVars,
    nftVars,
    aiVars,
    nestVars,
    tweetVars,
    chatVars,
    directVars>>
otherThanIdentity == <<retryVars, queueVars, quotaVars, pollVars, mentionVars, helperVars,
    nftVars,
    aiVars,
    nestVars,
    tweetVars,
    chatVars,
    directVars>>
otherThanNft == <<now, retryVars, queueVars, quotaVars, pollVars, mentionVars, helperVars,
    identityVars,
    aiVars,
    nestVars,
    tweetVars,
    chatVars,
    directVars>>
otherThanAi == <<retryVars, queueVars, quotaVars, pollVars, mentionVars, helperVars,
    identityVars, nftVars,
    nestVars,
    tweetVars,
    chatVars,
    directVars>>
otherThanNest == <<now, retryVars, queueVars, quotaVars, pollVars, mentionVars, helperVars,
    identityVars, nftVars, aiVars,
    tweetVars,
    chatVars,
    directVars>>
otherThanTweet == <<now, retryVars, queueVars, quotaVars, pollVars, mentionVars, helperVars,
    identityVars, nftVars, aiVars,
    nestVars,
    chatVars,
    directVars>>
otherThanChat == <<retryVars, queueVars, quotaVars, pollVars, mentionVars, helperVars,
    identityVars, nftVars, aiVars,
    nestVars,
    tweetVars,
    directVars>>

---------------------------------------------------------------------------
(* Bounds of the model *)
MaxTicks == 4        \* the clock runs from 0 to MaxTicks seconds
MaxResetSec == 2     \* rate-limit reset times reported by the provider, in seconds

NoTimer == -1
NoOutcome == [ok |-> FALSE, code |-> 0, rl |-> FALSE, reset |-> 0, headers |-> FALSE]

Max(a, b) == IF a >= b THEN a ELSE b
Min(a, b) == IF a <= b THEN a ELSE b

---------------------------------------------------------------------------
(* The clock *)
Tick ==
    /\ now < MaxTicks * 1000
    /\ now' = now + 1000

(* setTimeout(f, d): Node replaces a delay below 1 or above 2^31-1 by 1 *)
TimerDelay(d) == IF d < 1 \/ d > 2147483647 THEN 1 ELSE d

TimerDue(t) == t # NoTimer /\ now >= t

---------------------------------------------------------------------------
(* Results of one remote call, as twitter-api-v2 reports them *)
Ok == [ok |-> TRUE, code |-> 200, rl |-> FALSE, reset |-> 0, headers |-> FALSE]
\* ApiResponseError with code 429 and error.rateLimit = {reset, limit, remaining}
Err429(r) == [ok |-> FALSE, code |-> 429, rl |-> TRUE, reset |-> r, headers |-> TRUE]
\* error with code 429 and no error.rateLimit; h: error.response.headers present
Bare429(h) == [ok |-> FALSE, code |-> 429, rl |-> FALSE, reset |-> 0, headers |-> h]
\* any other failure (auth, validation, network)
ErrOther == [ok |-> FALSE, code |-> 403, rl |-> FALSE, reset |-> 0, headers |-> FALSE]
\* TypeError raised inside the helper itself
TypeError == [ok |-> FALSE, code |-> -3, rl |-> FALSE, reset |-> 0, headers |-> FALSE]

ResetSecs == 0..MaxResetSec
Outcomes == {Ok, ErrOther} \cup {Err429(r) : r \in ResetSecs} \cup {Bare429(h) : h \in BOOLEAN}

IsThrottle(e) == ~e.ok /\ e.code = 429

---------------------------------------------------------------------------
(* retryFetch                                                              *)
(*   "service": src/modules/xHandler/TwitterService.js, retryFetch         *)
(*   "legacy":  the TwitterService.retryFetch kept in promptService.js     *)
maxRetries == 3
SafetyBufferMs == 1000
LegacyRetryDelayMs == 1000

RetryImpls == {"service", "legacy"}

NoResult == [ok |-> FALSE, code |-> -1, rl |-> FALSE, reset |-> 0, headers |-> FALSE]
\* the loop ran out and the function fell off its end
Undefined == [ok |-> TRUE, code |-> -2, rl |-> FALSE, reset |-> 0, headers |-> FALSE]

\* this.rateLimitManager is never assigned by the constructor of the service
rateLimitManagerDefined == FALSE

\* const waitTime = resetTime - currentTime + 1000
WaitTimeNoBuffer(resetTime, currentTime) == resetTime - currentTime
WaitTime(resetTime, currentTime) == resetTime - currentTime + SafetyBufferMs

\* const waitTime = resetTime - currentTime (promptService.js)
LegacyWaitTime(resetTime, currentTime) == resetTime - currentTime

LastAttempt == rAttempts[Len(rAttempts)]

\* if (i < maxRetries - 1): only wait if more retries are left
RetriesLeftAlways(i) == TRUE
RetriesLeft(i) == i < maxRetries - 1

\* fetchFunction() is invoked: one more attempt starts now
NewAttempt == Append(rAttempts, [at |-> now, out |-> NoOutcome])
SettleAttempt(out) == [rAttempts EXCEPT ![Len(rAttempts)].out = out]

RetryInit ==
    /\ rImpl \in RetryImpls
    /\ rPc = "idle"
    /\ rI = 0
    /\ rAttempts = <<>>
    /\ rWaitTime = 0
    /\ rTimer = NoTimer
    /\ rStoreFailed = FALSE
    /\ rResult = NoResult

\* retryFetch(fetchFunction) is called: i = 0, first attempt
RfStart ==
    /\ rPc = "idle"
    /\ rPc' = "await"
    /\ rI' = 0
    /\ rAttempts' = NewAttempt
    /\ UNCHANGED <<now, rImpl, rWaitTime, rTimer, rStoreFailed, rResult>>
    /\ UNCHANGED otherThanRetry

\* what the catch block of the service's retryFetch does with a bare 429
ServiceBare429(out) ==
    IF ~rateLimitManagerDefined
    THEN \* this.rateLimitManager.shouldThrottle: TypeError out of the catch block
         /\ rPc' = "thrown"
         /\ rResult' = TypeError
         /\ UNCHANGED <<rI, rTimer>>
    ELSE IF rI < maxRetries - 1
         THEN /\ rPc' = "sleep"
              /\ rTimer' = now
              /\ UNCHANGED <<rI, rResult>>
         ELSE /\ rPc' = "thrown"
              /\ rResult' = out
              /\ UNCHANGED <<rI, rTimer>>

\* the awaited fetchFunction() settles with out (service)
RfRespondService(out) ==
    /\ rImpl = "service"
    /\ rPc = "await"
    /\ rAttempts' = SettleAttempt(out)
    /\ IF out.ok
       THEN /\ rPc' = "returned"
            /\ rResult' = out
            /\ UNCHANGED <<rI, rWaitTime, rTimer>>
       ELSE IF out.code = 429 /\ out.rl
       THEN \* waitTime is computed, then storeRateLimit is awaited
            /\ rWaitTime' = WaitTime(out.reset * 1000, now)
            /\ rPc' = "store"
            /\ UNCHANGED <<rI, rTimer, rResult>>
       ELSE IF out.code = 429
       THEN /\ ServiceBare429(out)
            /\ UNCHANGED rWaitTime
       ELSE \* throw lastError
            /\ rPc' = "thrown"
            /\ rResult' = out
            /\ UNCHANGED <<rI, rWaitTime, rTimer>>
    /\ UNCHANGED <<now, rImpl, rStoreFailed>>
    /\ UNCHANGED otherThanRetry

\* the error of a failed updateOne on the rate_limits collection
StoreError == [ok |-> FALSE, code |-> -6, rl |-> FALSE, reset |-> 0, headers |-> FALSE]

\* storeRateLimit wraps its updateOne in try/catch and only logs the error
StoreErrorEscapes == FALSE
StoreErrorCaught == TRUE

\* storeRateLimit settles; it catches its own failure (failed) and resolves
RfStoreDone(failed) ==
    /\ rImpl = "service"
    /\ rPc = "store"
    /\ rStoreFailed' = (rStoreFailed \/ failed)
    /\ IF failed /\ ~StoreErrorCaught
       THEN \* the rejection leaves the catch block of retryFetch
            /\ rPc' = "thrown"
            /\ rResult' = StoreError
            /\ UNCHANGED rTimer
       ELSE IF RetriesLeft(rI)
       THEN /\ rTimer' = now + TimerDelay(rWaitTime)
            /\ rPc' = "sleep"
            /\ UNCHANGED rResult
       ELSE /\ rPc' = "thrown"
            /\ rResult' = LastAttempt.out
            /\ UNCHANGED rTimer
    /\ UNCHANGED <<now, rImpl, rI, rAttempts, rWaitTime>>
    /\ UNCHANGED otherThanRetry

\* the awaited fetchFunction() settles with out (promptService.js)
RfRespondLegacy(out) ==
    /\ rImpl = "legacy"
    /\ rPc = "await"
    /\ rAttempts' = SettleAttempt(out)
    /\ IF out.ok
       THEN /\ rPc' = "returned"
            /\ rResult' = out
            /\ UNCHANGED <<rWaitTime, rTimer>>
       ELSE IF out.code = 429 /\ out.rl
       THEN /\ rWaitTime' = LegacyWaitTime(out.reset * 1000, now)
            /\ rTimer' = now + TimerDelay(rWaitTime')
            /\ rPc' = "sleep"
            /\ UNCHANGED rResult
       ELSE IF rI = maxRetries - 1
       THEN /\ rPc' = "thrown"
            /\ rResult' = out
            /\ UNCHANGED <<rWaitTime, rTimer>>
       ELSE /\ rWaitTime' = LegacyRetryDelayMs
            /\ rTimer' = now + TimerDelay(LegacyRetryDelayMs)
            /\ rPc' = "sleep"
            /\ UNCHANGED rResult
    /\ UNCHANGED <<now, rImpl, rI, rStoreFailed>>
    /\ UNCHANGED otherThanRetry

\* the timer fires: next iteration of the for loop
RfWake ==
    /\ rPc = "sleep"
    /\ TimerDue(rTimer)
    /\ rTimer' = NoTimer
    /\ rI' = rI + 1
    /\ IF rI + 1 < maxRetries
       THEN /\ rAttempts' = NewAttempt
            /\ rPc' = "await"
            /\ UNCHANGED rResult
       ELSE /\ rPc' = "returned"
            /\ rResult' = Undefined
            /\ UNCHANGED rAttempts
    /\ UNCHANGED <<now, rImpl, rWaitTime, rStoreFailed>>
    /\ UNCHANGED otherThanRetry

RetryTick == Tick /\ UNCHANGED retryVars /\ UNCHANGED otherThanRetry

RetryNext ==
    \/ RetryTick
    \/ RfStart
    \/ \E out \in Outcomes : RfRespondService(out)
    \/ \E failed \in BOOLEAN : RfStoreDone(failed)
    \/ \E out \in Outcomes : RfRespondLegacy(out)
    \/ RfWake

---------------------------------------------------------------------------
(* RateLimitManager of src/xHandler.js: checkRateLimit, executeWithRateLimit, *)
(* and the setupPolling that drives pollMentionsAndReplies through it         *)
MaxOps == 3          \* operations submitted in one behaviour
QMaxTicks == 2       \* the clock of the lanes runs from 0 to QMaxTicks seconds

Endpoints == {"tweet", "mentions"}
retryDelays == <<1000, 5000, 15000, 30000, 60000>>
pollingInterval == 3600000
MaxPollingInterval == 3600000

\* new Error(`Rate limit exceeded after ${this.retryDelays.length} retries`)
RateLimitExceeded == [ok |-> FALSE, code |-> -4, rl |-> FALSE, reset |-> 0, headers |-> FALSE]
\* ReferenceError: error is not defined
ReferenceError == [ok |-> FALSE, code |-> -5, rl |-> FALSE, reset |-> 0, headers |-> FALSE]

QOutcomes == {Ok, ErrOther, Bare429(FALSE)} \cup {Err429(r) : r \in ResetSecs}

QueueInit ==
    /\ qLimits = [ep \in Endpoints |-> [set |-> FALSE, reset |-> 0]]
    /\ qQueues = [ep \in Endpoints |-> "none"]
    /\ qOps = <<>>
    /\ qStarted = <<>>
    /\ xsPc = "idle"
    /\ xsOp = 0
    /\ xsTimer = NoTimer

OpIds == 1..Len(qOps)
QSettled(i) == qOps[i].pc \in {"done", "failed"}

\* checkRateLimit: limit && Date.now() < limit.reset
LimitActive(ep) == qLimits[ep].set /\ now < qLimits[ep].reset

\* the rejection reasons the promise stored in this.queues for ep can carry:
\* the entry is Promise.resolve() and no operation's promise is ever chained
\* onto it, so there is none
LaneRejectionChained(ep) ==
    {qOps[j].result : j \in {k \in 1..Len(qOps) : qOps[k].ep = ep /\ qOps[k].pc = "failed"}}
LaneRejection(ep) == {}

\* executeWithRateLimit(endpoint, operation), up to the first suspension:
\* the entry of this.queues is created resolved and never replaced, so the
\* then-callback runs in the same turn; it awaits checkRateLimit, which sets a
\* timer when a limit is in effect, and then invokes operation()
Submitted(ep) ==
    IF LaneRejection(ep) # {}
    THEN \* then() on a rejected promise skips the callback and rejects alike
         [ep |-> ep, pc |-> "failed", timer |-> NoTimer, retries |-> 0,
          result |-> CHOOSE r \in LaneRejection(ep) : TRUE]
    ELSE IF LimitActive(ep)
    THEN [ep |-> ep, pc |-> "wait", timer |-> now + TimerDelay(qLimits[ep].reset - now),
          retries |-> 0, result |-> NoResult]
    ELSE [ep |-> ep, pc |-> "run", timer |-> NoTimer, retries |-> 0, result |-> NoResult]

executeWithRateLimit(ep) ==
    /\ qQueues' = [qQueues EXCEPT ![ep] = "resolved"]
    /\ qOps' = Append(qOps, Submitted(ep))
    /\ qStarted' = IF Submitted(ep).pc = "run"
                   THEN Append(qStarted, Len(qOps) + 1)
                   ELSE qStarted

\* a caller (postTweet, replyToTweet, pollMentionsAndReplies) submits
QSubmit(ep) ==
    /\ Len(qOps) < MaxOps
    /\ executeWithRateLimit(ep)
    /\ UNCHANGED <<now, qLimits, xsPc, xsOp, xsTimer>>
    /\ UNCHANGED otherThanQueue

\* the timer of checkRateLimit fires: operation() is invoked
QWake(i) ==
    /\ qOps[i].pc = "wait"
    /\ TimerDue(qOps[i].timer)
    /\ qOps' = [qOps EXCEPT ![i].pc = "run", ![i].timer = NoTimer]
    /\ qStarted' = Append(qStarted, i)
    /\ UNCHANGED <<now, qLimits, qQueues, xsPc, xsOp, xsTimer>>
    /\ UNCHANGED otherThanQueue

\* the first operation() settles with out
QRespondFirst(i, out) ==
    /\ qOps[i].pc = "run"
    /\ qOps[i].retries = 0
    /\ IF out.ok
       THEN /\ qOps' = [qOps EXCEPT ![i].pc = "done", ![i].result = out]
            /\ UNCHANGED qLimits
       ELSE IF out.code = 429 /\ ~out.rl
       THEN \* error.rateLimit.reset: TypeError out of the catch block
            /\ qOps' = [qOps EXCEPT ![i].pc = "failed", ![i].result = TypeError]
            /\ UNCHANGED qLimits
       ELSE IF out.code = 429
       THEN /\ qLimits' = [qLimits EXCEPT ![qOps[i].ep] = [set |-> TRUE, reset |-> out.reset * 1000]]
            /\ qOps' = [qOps EXCEPT ![i].pc = "backoff",
                                    ![i].timer = now + TimerDelay(retryDelays[1])]
       ELSE /\ qOps' = [qOps EXCEPT ![i].pc = "failed", ![i].result = out]
            /\ UNCHANGED qLimits
    /\ UNCHANGED <<now, qQueues, qStarted, xsPc, xsOp, xsTimer>>
    /\ UNCHANGED otherThanQueue

\* the backoff timer fires: operation() is invoked again
QRetry(i) ==
    /\ qOps[i].pc = "backoff"
    /\ TimerDue(qOps[i].timer)
    /\ qOps' = [qOps EXCEPT ![i].pc = "run", ![i].timer = NoTimer,
                            ![i].retries = qOps[i].retries + 1]
    /\ UNCHANGED <<now, qLimits, qQueues, qStarted, xsPc, xsOp, xsTimer>>
    /\ UNCHANGED otherThanQueue

\* a retried operation() settles with out
QRespondRetry(i, out) ==
    /\ qOps[i].pc = "run"
    /\ qOps[i].retries > 0
    /\ IF out.ok
       THEN qOps' = [qOps EXCEPT ![i].pc = "done", ![i].result = out]
       ELSE IF out.code # 429
       THEN qOps' = [qOps EXCEPT ![i].pc = "failed", ![i].result = out]
       ELSE IF qOps[i].retries < Len(retryDelays)
       THEN qOps' = [qOps EXCEPT ![i].pc = "backoff",
                                 ![i].timer = now + TimerDelay(retryDelays[qOps[i].retries + 1])]
       ELSE qOps' = [qOps EXCEPT ![i].pc = "failed", ![i].result = RateLimitExceeded]
    /\ UNCHANGED <<now, qLimits, qQueues, qStarted, xsPc, xsOp, xsTimer>>
    /\ UNCHANGED otherThanQueue

\* whether the finally block of setupPolling can read the caught error:
\* in src/xHandler.js it is the catch parameter, out of scope in finally
FinallyErrorInScope == FALSE

\* error?.code === 429 ? Math.min(pollingInterval * 2, 3600000) : pollingInterval
XNextInterval(err) ==
    IF err.code = 429 THEN Min(pollingInterval * 2, MaxPollingInterval) ELSE pollingInterval

\* setupPolling(service) is called, at start-up or by its timer:
\* await service.pollMentionsAndReplies()
XSetupPolling ==
    /\ (xsPc = "idle" \/ (xsPc = "scheduled" /\ TimerDue(xsTimer)))
    /\ Len(qOps) < MaxOps
    /\ executeWithRateLimit("mentions")
    /\ xsOp' = Len(qOps) + 1
    /\ xsPc' = "awaiting"
    /\ xsTimer' = NoTimer
    /\ UNCHANGED <<now, qLimits>>
    /\ UNCHANGED otherThanQueue

\* the awaited poll settles: catch, then finally
XSetupPollingSettle ==
    /\ xsPc = "awaiting"
    /\ QSettled(xsOp)
    /\ IF FinallyErrorInScope
       THEN /\ xsTimer' = now + TimerDelay(XNextInterval(qOps[xsOp].result))
            /\ xsPc' = "scheduled"
       ELSE /\ xsPc' = "rejected"
            /\ UNCHANGED xsTimer
    /\ UNCHANGED <<now, qLimits, qQueues, qOps, qStarted, xsOp>>
    /\ UNCHANGED otherThanQueue

QueueTick ==
    /\ now < QMaxTicks * 1000
    /\ Tick
    /\ UNCHANGED queueVars
    /\ UNCHANGED otherThanQueue

QueueNext ==
    \/ QueueTick
    \/ \E ep \in Endpoints : QSubmit(ep)
    \/ \E i \in OpIds : QWake(i)
    \/ \E i \in OpIds, out \in QOutcomes : QRespondFirst(i, out)
    \/ \E i \in OpIds : QRetry(i)
    \/ \E i \in OpIds, out \in QOutcomes : QRespondRetry(i, out)
    \/ XSetupPolling
    \/ XSetupPollingSettle

---------------------------------------------------------------------------
(* Quota counters of src/modules/xHandler/TwitterService.js:               *)
(* resetCountersIfNeeded, postImage, postTweet, replyToTweet and           *)
(* fetchRelevantPosts.  A call makes its quota check synchronously, then    *)
(* awaits the API; other calls and the calendar may move in between.       *)
MaxDay == 2          \* getDate() ranges over 1..MaxDay
MaxMonth == 1        \* getMonth() ranges over 0..MaxMonth
MaxChecks == 2       \* quota checks made in one behaviour
MaxInFlight == 2     \* calls awaiting the API at the same time

dailyPostLimit == 100
monthlyReadLimit == 100
\* dailyPostRatio = 0.2 and dailyReplyRatio = 0.8, in hundredths
dailyPostRatioPct == 20
dailyReplyRatioPct == 80

\* Math.floor(this.dailyPostLimit * this.dailyPostRatio)
maxDailyPosts == (dailyPostLimit * dailyPostRatioPct) \div 100
\* Math.floor(this.dailyPostLimit * this.dailyReplyRatio)
maxDailyReplies == (dailyPostLimit * dailyReplyRatioPct) \div 100

Dates == [d : 1..MaxDay, m : 0..MaxMonth]
Before(a, b) == a.m < b.m \/ (a.m = b.m /\ a.d < b.d)
ConstructionDate == [d |-> 1, m |-> 0]

PostTweetKinds == {"postTweetText", "postTweetImage"}
ReplyKinds == {"replyText", "replyImage"}
Kinds == PostTweetKinds \cup ReplyKinds \cup {"postImage", "fetch"}

\* the fields the constructor sets
Constructed ==
    [dailyPosts |-> 0, monthlyReads |-> 0,
     lastDailyReset |-> ConstructionDate, lastMonthlyReset |-> ConstructionDate,
     dailyPostsUsed |-> 0, dailyRepliesUsed |-> 0]

Counters(c) == <<c.dailyPosts, c.dailyPostsUsed, c.dailyRepliesUsed, c.monthlyReads>>
DailyCounters(c) == <<c.dailyPosts, c.dailyPostsUsed, c.dailyRepliesUsed>>

\* only the day of the month and the month are compared
DailyResetDue(c, date) == date.d # c.lastDailyReset.d
MonthlyResetDue(c, date) == date.m # c.lastMonthlyReset.m

resetCountersIfNeeded(c, date) ==
    LET c1 == IF DailyResetDue(c, date)
              THEN [c EXCEPT !.dailyPosts = 0, !.dailyPostsUsed = 0,
                             !.dailyRepliesUsed = 0, !.lastDailyReset = date]
              ELSE c
    IN  IF MonthlyResetDue(c1, date)
        THEN [c1 EXCEPT !.monthlyReads = 0, !.lastMonthlyReset = date]
        ELSE c1

\* replyToTweet goes straight to its check; the other three reset first
CallsReset(kind) == kind \notin ReplyKinds

BeforeCheck(kind, c, date) ==
    IF CallsReset(kind) THEN resetCountersIfNeeded(c, date) ELSE c

\* the quota check of each operation, on the counters it reads
Admits(kind, c) ==
    CASE kind = "postImage"     -> c.dailyPosts < dailyPostLimit
      [] kind \in PostTweetKinds -> /\ c.dailyPosts < dailyPostLimit
                                    /\ c.dailyPostsUsed < maxDailyPosts
      [] kind \in ReplyKinds     -> c.dailyRepliesUsed < maxDailyReplies
      [] kind = "fetch"          -> c.monthlyReads < monthlyReadLimit

\* what a successful call adds to the counters before it returns
Counted(kind, c) ==
    CASE kind = "postImage" -> [c EXCEPT !.dailyPosts = @ + 1]
      [] kind = "replyText" -> [c EXCEPT !.dailyRepliesUsed = @ + 1]
      [] kind = "fetch"     -> [c EXCEPT !.monthlyReads = @ + 1]
      [] OTHER              -> c

InFlightTotal ==
    inflight["postTweetText"] + inflight["postTweetImage"] + inflight["postImage"]
    + inflight["replyText"] + inflight["replyImage"] + inflight["fetch"]
    + storing["postTweetText"] + storing["postTweetImage"] + storing["postImage"]
    + storing["replyText"] + storing["replyImage"] + storing["fetch"]

\* a call whose first remote call does not wait for the check
LaunchAlways(kind, admitted) == [inflight EXCEPT ![kind] = @ + 1]

\* the remote calls are made only past the check
Launch(kind, admitted) ==
    IF admitted THEN [inflight EXCEPT ![kind] = @ + 1] ELSE inflight

\* the kinds of call made during the earlier use of the service, in this order
WarmKinds == <<"postTweetText", "replyText", "postImage", "fetch">>
WarmDone == \A i \in 1..Len(WarmKinds) : warm[i] = 0
NextWarm == CHOOSE i \in 1..Len(WarmKinds) : warm[i] > 0 /\ \A j \in 1..(i - 1) : warm[j] = 0

NoCheck ==
    [kind |-> "none", admitted |-> FALSE, reset |-> FALSE, daily |-> <<0, 0, 0>>,
     sentPosts |-> 0, sentReplies |-> 0, sentImages |-> 0, first |-> FALSE,
     reads |-> 0]

\* the synchronous head of a call: lazy reset, check, then the first remote call
QuotaCheck(kind) ==
    LET c        == BeforeCheck(kind, svc, today)
        admitted == Admits(kind, c)
    IN  /\ WarmDone
        /\ nChecks < MaxChecks
        /\ admitted => InFlightTotal < MaxInFlight
        /\ svc' = c
        /\ inflight' = Launch(kind, admitted)
        /\ nChecks' = nChecks + 1
        /\ lastCheck' = [kind |-> kind, admitted |-> admitted, reset |-> c # svc,
                         daily |-> DailyCounters(c), sentPosts |-> sentPosts,
                         sentReplies |-> sentReplies, sentImages |-> sentImages,
                         first |-> dayChanged, reads |-> c.monthlyReads]
        /\ dayChanged' = IF kind = "fetch" THEN dayChanged ELSE FALSE
        /\ UNCHANGED <<today, storing, sentPosts, sentReplies, sentImages, sentReads, warm>>
        /\ UNCHANGED otherThanQuota

postImage == QuotaCheck("postImage")

postTweet(type) == QuotaCheck(IF type = "image" THEN "postTweetImage" ELSE "postTweetText")

replyToTweet(type) == QuotaCheck(IF type = "image" THEN "replyImage" ELSE "replyText")

fetchRelevantPosts == QuotaCheck("fetch")

\* how the remote call of an operation settles: it fails, or it succeeds ("ok");
\* a timeline read may succeed without an array of tweets ("nodata"), and the
\* content of an image postTweet may carry a prompt to be posted as a reply
SettleOutcomes(kind) ==
    {"failed", "ok"} \cup (IF kind = "fetch" THEN {"nodata"} ELSE {})
                     \cup (IF kind = "postTweetImage" THEN {"prompt"} ELSE {})

\* what the operation still awaits between its remote call and its return:
\* postImage counts and returns at once, a read without an array falls back to
\* the database, an image postTweet without prompt returns the response
AwaitsMore(kind, out) ==
    CASE kind = "postImage"      -> FALSE
      [] kind = "postTweetImage" -> out = "prompt"
      [] OTHER                   -> out = "ok"

\* the awaited remote call of one admitted operation settles
QuotaSettle(kind, out) ==
    LET ok == out # "failed"
    IN  /\ inflight[kind] > 0
        /\ inflight' = [inflight EXCEPT ![kind] = @ - 1]
        /\ storing' = IF AwaitsMore(kind, out) THEN [storing EXCEPT ![kind] = @ + 1]
                      ELSE storing
        /\ svc' = IF ok /\ kind = "postImage" THEN Counted(kind, svc) ELSE svc
        /\ sentPosts' = IF ok /\ kind \in PostTweetKinds THEN sentPosts + 1 ELSE sentPosts
        /\ sentReplies' = IF ok /\ kind \in ReplyKinds THEN sentReplies + 1 ELSE sentReplies
        /\ sentImages' = IF ok /\ kind = "postImage" THEN sentImages + 1 ELSE sentImages
        /\ sentReads' = IF ok /\ kind = "fetch" THEN sentReads + 1 ELSE sentReads
        /\ lastCheck' = NoCheck
        /\ UNCHANGED <<today, nChecks, dayChanged, warm>>
        /\ UNCHANGED otherThanQuota

\* the rest of an operation whose remote call succeeded: getCachedUserId and
\* storeTweet, which catch their own errors, then the counter and the return;
\* for an image postTweet with a prompt, the reply that carries the prompt
\* settles (ok) or is rejected and caught
QuotaReturn(kind, ok) ==
    /\ storing[kind] > 0
    /\ ok \/ kind = "postTweetImage"
    /\ storing' = [storing EXCEPT ![kind] = @ - 1]
    /\ svc' = Counted(kind, svc)
    /\ sentReplies' = IF ok /\ kind = "postTweetImage" THEN sentReplies + 1 ELSE sentReplies
    /\ lastCheck' = NoCheck
    /\ UNCHANGED <<today, inflight, nChecks, sentPosts, sentImages, sentReads, dayChanged,
                   warm>>
    /\ UNCHANGED otherThanQuota

\* the wall clock reaches a later calendar date
DateAdvance ==
    \E date \in Dates :
        /\ WarmDone
        /\ Before(today, date)
        /\ today' = date
        /\ sentPosts' = 0
        /\ sentReplies' = 0
        /\ sentImages' = 0
        /\ sentReads' = IF date.m # today.m THEN 0 ELSE sentReads
        /\ dayChanged' = (dayChanged \/ date.d # today.d)
        /\ lastCheck' = NoCheck
        /\ UNCHANGED <<svc, inflight, storing, nChecks, warm>>
        /\ UNCHANGED otherThanQuota

\* one call made alone and successful: its check and its remote calls, with
\* nothing else in between
SequentialCall ==
    /\ ~WarmDone
    /\ LET kind     == WarmKinds[NextWarm]
           c        == BeforeCheck(kind, svc, today)
           admitted == Admits(kind, c)
       IN  /\ warm' = [warm EXCEPT ![NextWarm] = @ - 1]
           /\ svc' = IF admitted THEN Counted(kind, c) ELSE c
           /\ lastCheck' = [kind |-> kind, admitted |-> admitted, reset |-> c # svc,
                            daily |-> DailyCounters(c), sentPosts |-> sentPosts,
                            sentReplies |-> sentReplies, sentImages |-> sentImages,
                         first |-> dayChanged, reads |-> c.monthlyReads]
           /\ sentPosts' = IF admitted /\ kind \in PostTweetKinds
                           THEN sentPosts + 1 ELSE sentPosts
           /\ sentReplies' = IF admitted /\ kind \in ReplyKinds
                             THEN sentReplies + 1 ELSE sentReplies
           /\ sentImages' = IF admitted /\ kind = "postImage"
                            THEN sentImages + 1 ELSE sentImages
           /\ sentReads' = IF admitted /\ kind = "fetch"
                           THEN sentReads + 1 ELSE sentReads
           /\ dayChanged' = IF kind = "fetch" THEN dayChanged ELSE FALSE
    /\ UNCHANGED <<today, inflight, storing, nChecks>>
    /\ UNCHANGED otherThanQuota

\* a service just constructed
QuotaConstructed ==
    /\ today = ConstructionDate
    /\ svc = Constructed
    /\ inflight = [k \in Kinds |-> 0]
    /\ storing = [k \in Kinds |-> 0]
    /\ nChecks = 0
    /\ lastCheck = NoCheck
    /\ sentPosts = 0
    /\ sentReplies = 0
    /\ sentImages = 0
    /\ sentReads = 0
    /\ dayChanged = FALSE

QuotaInit ==
    /\ QuotaConstructed
    /\ warm = <<0, 0, 0, 0>>

\* use made of the service on the construction day before anything else
PriorPosts == {0, maxDailyPosts - 1}
PriorReplies == {0, maxDailyReplies - 1}
PriorImages == {0, dailyPostLimit - 1}
PriorReads == {0, monthlyReadLimit - 1}

QuotaInitUsed ==
    /\ QuotaConstructed
    /\ \E p \in PriorPosts, r \in PriorReplies, g \in PriorImages, f \in PriorReads :
           warm = <<p, r, g, f>>

QuotaNext ==
    \/ SequentialCall
    \/ DateAdvance
    \/ postImage
    \/ \E type \in {"text", "image"} : postTweet(type)
    \/ \E type \in {"text", "image"} : replyToTweet(type)
    \/ fetchRelevantPosts
    \/ \E kind \in Kinds : \E out \in SettleOutcomes(kind) : QuotaSettle(kind, out)
    \/ \E kind \in Kinds, ok \in BOOLEAN : QuotaReturn(kind, ok)

---------------------------------------------------------------------------
(* Mention polling of src/modules/xHandler: pollMentionsAndReplies of      *)
(* Polling.js, whose inner poll() reschedules itself, and the setupPolling  *)
(* of TwitterService.js that calls it.  Here the clock moves to the next    *)
(* time a timer falls due; a due timer may fire late and a remote call may  *)
(* settle at any time.                                                      *)
(*   "polling": src/modules/xHandler/Polling.js                             *)
(*   "part001": the pollMentionsAndReplies.js kept in unnamed/part_001      *)
MaxRounds == 2       \* rounds of setupPolling in one behaviour
MaxMentions == 2     \* mentions returned by one fetch
MaxCycles == 2       \* poll cycles started in one behaviour, all chains together

servicePollingInterval == 3600000
PollTimeoutMs == 60000
MentionPacingMs == 15000
Part001PacingMs == 6660
Part001CoolingMs == 10000
PollImpls == {"polling", "part001"}
\* reset times reported with a throttled fetch, relative to Date.now(), in seconds
PollResetOffsets == {-1, 30, 7200}

\* no error caught in the cycle
NoPollErr == [code |-> 0, rl |-> FALSE, reset |-> 0]
\* batch: mentions.data.data of the cycle, idx: the place in it of the mention
\* the for loop is at
NoChain ==
    [pc |-> "none", batch |-> <<>>, idx |-> 0, timer |-> NoTimer, cycles |-> 0,
     err |-> NoPollErr, streak |-> 0, raised |-> "none"]
Chains == 1..MaxRounds
PollHorizon == servicePollingInterval * (MaxRounds - 1) + PollTimeoutMs

\* the mentions a fetch can return, in the order of the page
PollMentionIds == {1, 2}
PollBatches ==
    {q \in UNION {[1..n -> PollMentionIds] : n \in 0..MaxMentions} :
        \A i, j \in DOMAIN q : i # j => q[i] # q[j]}

\* what the fetch of one cycle can produce. page: whether mentions.data
\* carries a data array; a page of no mention may come without one, with
\* meta.result_count = 0 only. code: error.code where it is 429, 500 standing
\* for every error that is no 429
PollOk(batch) ==
    [ok |-> TRUE, page |-> "array", batch |-> batch, code |-> 200, rl |-> FALSE,
     resetIn |-> 0]
PollNoData == [PollOk(<<>>) EXCEPT !.page = "none"]
PollErr ==
    [ok |-> FALSE, page |-> "none", batch |-> <<>>, code |-> 500, rl |-> FALSE,
     resetIn |-> 0]
PollErr429(o) == [PollErr EXCEPT !.code = 429, !.rl = TRUE, !.resetIn = o]
PollBare429 == [PollErr EXCEPT !.code = 429]
PollOutcomes ==
    {PollOk(batch) : batch \in PollBatches} \cup {PollNoData, PollErr, PollBare429}
        \cup {PollErr429(o) : o \in PollResetOffsets}

\* error.rateLimit.reset, in epoch seconds
ResetTime(err) == (now \div 1000) + err.resetIn

\* the error as the catch block sees it
Caught(err) ==
    [code |-> err.code, rl |-> err.rl, reset |-> IF err.rl THEN ResetTime(err) ELSE 0]

\* a 429 that carries no reset time
Throttled(err) == err.code = 429 /\ ~err.rl

\* finally { setTimeout(poll, timeout) }
Reschedule(ch, timeout) ==
    [ch EXCEPT !.pc = "scheduled", !.batch = <<>>, !.idx = 0,
               !.timer = now + TimerDelay(timeout)]

\* the try block ran to its end: finally, with the default timeout
EndCycle(ch) == [Reschedule(ch, PollTimeoutMs) EXCEPT !.streak = 0]

\* a catch block that leaves the default timeout in place
CatchTimeoutDefault(err) == PollTimeoutMs

\* catch: the timeout follows the reset time when the error carries one
CatchTimeout(err) ==
    IF err.rl /\ ResetTime(err) # 0 THEN (ResetTime(err) * 1000) - now ELSE PollTimeoutMs

\* part_001 waits 10 s in the catch block on a 429 that carries no reset time
CoolsDown(err) == pImpl = "part001" /\ err.code = 429 /\ ~(err.rl /\ ResetTime(err) # 0)

\* catch and finally, for an error thrown in the try block
PollCatch(ch, err) ==
    IF CoolsDown(err)
    THEN [ch EXCEPT !.pc = "cooling", !.batch = <<>>, !.idx = 0, !.err = Caught(err),
                    !.streak = @ + 1,
                    !.timer = now + TimerDelay(Part001CoolingMs)]
    ELSE [Reschedule(ch, CatchTimeout(err)) EXCEPT
              !.err = Caught(err),
              !.streak = IF Throttled(err) THEN @ + 1 ELSE 0]

\* a poll() whose try block ends before the for loop
InsideTryFetchOnly(where) == where = "fetch"

\* the try block of poll() holds the fetch and the whole for loop: the for
\* statement itself ("loop") and the handleMention it awaits ("handle")
InsideTry(where) == where \in {"fetch", "loop", "handle"}

\* an error is raised in poll(): caught when inside the try block, else the
\* promise of poll() is rejected and nothing more is scheduled
Raise(ch, err, where) ==
    IF InsideTry(where)
    THEN [PollCatch(ch, err) EXCEPT !.raised = where]
    ELSE [ch EXCEPT !.pc = "rejected", !.raised = where, !.timer = NoTimer]

\* await new Promise(resolve => setTimeout(resolve, 15000)), 6660 in part_001
PacingMs == IF pImpl = "part001" THEN Part001PacingMs ELSE MentionPacingMs

\* error.code in the finally block of setupPolling: pollMentionsAndReplies
\* calls poll() without awaiting it and returns, so its promise fulfils
\* whatever becomes of the cycle, the catch block never runs and error is
\* still null
SetupErrorCode == NoPollErr.code

\* finally of setupPolling: the interval of the next round
SetupNextInterval(errCode) ==
    IF errCode = 429
    THEN Min(servicePollingInterval * 2, MaxPollingInterval)
    ELSE servicePollingInterval

\* throttled cycles in a row that the poll() chain of the latest round has just ended
ThrottledStreak ==
    IF spRounds > 0 /\ pChains[spRounds].pc \in {"scheduled", "cooling"}
    THEN pChains[spRounds].streak ELSE 0

RECURSIVE CyclesUpTo(_)
CyclesUpTo(c) == IF c = 0 THEN 0 ELSE pChains[c].cycles + CyclesUpTo(c - 1)
\* cycles started so far by all the chains
TotalCycles == CyclesUpTo(MaxRounds)

\* poll() up to its first await: a cycle starts
PollStart(ch) ==
    [pc |-> "fetching", batch |-> <<>>, idx |-> 0, timer |-> NoTimer,
     cycles |-> ch.cycles + 1, err |-> NoPollErr, streak |-> ch.streak,
     raised |-> "none"]

\* setupPolling(service): pollMentionsAndReplies starts its own poll() without
\* awaiting it and returns; the finally block arms pollingTimeout
setupPolling ==
    /\ spRounds < MaxRounds
    /\ TotalCycles < MaxCycles
    /\ spRounds = 0 \/ TimerDue(spTimer)
    /\ pChains' = [pChains EXCEPT ![spRounds + 1] = PollStart(@)]
    /\ spRounds' = spRounds + 1
    /\ spTimer' = now + TimerDelay(SetupNextInterval(SetupErrorCode))
    /\ spSched' = Append(spSched, [interval |-> SetupNextInterval(SetupErrorCode),
                                   streak |-> ThrottledStreak,
                                   code |-> SetupErrorCode])
    /\ UNCHANGED <<now, pImpl, spCleaned>>
    /\ UNCHANGED otherThanPoll

\* a loop that takes the mentions of the page from the last one
EnterLoopLastFirst(ch, out) ==
    IF pImpl = "polling" /\ out.page = "none"
    THEN Raise(ch, PollErr, "loop")
    ELSE IF Len(out.batch) = 0
    THEN EndCycle(ch)
    ELSE [ch EXCEPT !.pc = "handling", !.batch = out.batch, !.idx = Len(out.batch)]

\* the page of a fulfilled fetch reaches the for loop. Polling.js iterates
\* mentions.data.data as it is: without a data array the for statement throws
\* a TypeError, over an empty array the loop ends at once. part_001 returns
\* before the loop when mentions.data.meta.result_count is 0
EnterLoop(ch, out) ==
    IF pImpl = "polling" /\ out.page = "none"
    THEN Raise(ch, PollErr, "loop")
    ELSE IF Len(out.batch) = 0
    THEN EndCycle(ch)
    ELSE [ch EXCEPT !.pc = "handling", !.batch = out.batch, !.idx = 1]

\* getCachedUserId and userMentionTimeline settle
PollFetched(c, out) ==
    /\ pChains[c].pc = "fetching"
    /\ pChains' = [pChains EXCEPT ![c] =
            IF out.ok THEN EnterLoop(@, out) ELSE Raise(@, out, "fetch")]
    /\ UNCHANGED <<now, pImpl, spRounds, spTimer, spSched, spCleaned>>
    /\ UNCHANGED otherThanPoll

\* the loop moves past one mention: to the next one, or to the end of the cycle
NextMention(ch) ==
    IF ch.idx < Len(ch.batch)
    THEN [ch EXCEPT !.pc = "handling", !.idx = @ + 1, !.timer = NoTimer]
    ELSE EndCycle(ch)

\* handleMention throws only from its lookups before the try block: the
\* tweetsCollection.findOne of Polling.js; part_001 has none
HandleOutcomes ==
    IF pImpl = "part001" THEN {"returned", "skipped"} ELSE {"returned", "threw"}

\* handleMention settles; part_001 skips a mention of the bot's own without
\* calling it and without the pacing wait
PollHandled(c, how) ==
    /\ pChains[c].pc = "handling"
    /\ how \in HandleOutcomes
    /\ pChains' = [pChains EXCEPT ![c] =
            CASE how = "threw"    -> Raise(@, PollErr, "handle")
              [] how = "skipped"  -> NextMention(@)
              [] how = "returned" -> [@ EXCEPT !.pc = "pacing",
                                               !.timer = now + TimerDelay(PacingMs)]]
    /\ UNCHANGED <<now, pImpl, spRounds, spTimer, spSched, spCleaned>>
    /\ UNCHANGED otherThanPoll

\* the 15 s wait after a mention ends: next mention, or the end of the cycle
PollPaced(c) ==
    /\ pChains[c].pc = "pacing"
    /\ TimerDue(pChains[c].timer)
    /\ pChains' = [pChains EXCEPT ![c] = NextMention(@)]
    /\ UNCHANGED <<now, pImpl, spRounds, spTimer, spSched, spCleaned>>
    /\ UNCHANGED otherThanPoll

\* the 10 s wait of part_001's catch block ends: finally
PollCooled(c) ==
    /\ pChains[c].pc = "cooling"
    /\ TimerDue(pChains[c].timer)
    /\ pChains' = [pChains EXCEPT ![c] = Reschedule(@, PollTimeoutMs)]
    /\ UNCHANGED <<now, pImpl, spRounds, spTimer, spSched, spCleaned>>
    /\ UNCHANGED otherThanPoll

\* the timer set by finally fires: poll() runs again
PollWake(c) ==
    /\ pChains[c].pc = "scheduled"
    /\ TimerDue(pChains[c].timer)
    /\ TotalCycles < MaxCycles
    /\ pChains' = [pChains EXCEPT ![c] = PollStart(@)]
    /\ UNCHANGED <<now, pImpl, spRounds, spTimer, spSched, spCleaned>>
    /\ UNCHANGED otherThanPoll

FutureTimers ==
    {t \in {pChains[c].timer : c \in Chains} \cup {spTimer} : t # NoTimer /\ now < t}

\* time passes until the next timer falls due
PollAdvance ==
    /\ \E t \in FutureTimers :
          /\ \A u \in FutureTimers : t <= u
          /\ t <= PollHorizon
          /\ now' = t
    /\ UNCHANGED <<pImpl, pChains, spRounds, spTimer, spSched, spCleaned>>
    /\ UNCHANGED otherThanPoll

\* cleanup(): if (pollingTimeout) clearTimeout(pollingTimeout); the timers that
\* poll() sets for itself are held by nobody and stay armed
cleanup ==
    /\ spRounds > 0
    /\ ~spCleaned
    /\ spCleaned' = TRUE
    /\ spTimer' = NoTimer
    /\ UNCHANGED <<now, pImpl, pChains, spRounds, spSched>>
    /\ UNCHANGED otherThanPoll

PollInit ==
    /\ pImpl \in PollImpls
    /\ pChains = [c \in Chains |-> NoChain]
    /\ spRounds = 0
    /\ spTimer = NoTimer
    /\ spSched = <<>>
    /\ spCleaned = FALSE

PollNext ==
    \/ PollAdvance
    \/ setupPolling
    \/ \E c \in Chains, out \in PollOutcomes : PollFetched(c, out)
    \/ \E c \in Chains, how \in {"returned", "threw", "skipped"} : PollHandled(c, how)
    \/ \E c \in Chains : PollPaced(c)
    \/ \E c \in Chains : PollCooled(c)
    \/ \E c \in Chains : PollWake(c)

---------------------------------------------------------------------------
(* One poll() chain, mention by mention: src/modules/xHandler/Polling.js and
   unnamed/part_001 *)
MaxBatch == 2       \* mentions returned by one fetch
MaxPolls == 2       \* poll cycles followed

BotId == "bot"
HumanId == "human"
NoUser == "null"    \* getCachedUserId's null
UserIds == {BotId, NoUser}

MentionIds == {1, 2, 3, 4}
NoRecord == 0           \* findOne resolved null; also the cursor's null
\* the mentions the provider holds: author and the author of the tweet replied to
Mention(id) ==
    [id |-> id,
     author_id |-> IF id = 3 THEN BotId ELSE HumanId,
     replied_to |-> IF id = 2 THEN HumanId ELSE IF id = 4 THEN BotId ELSE "none"]

Injective(q) == \A i, j \in DOMAIN q : i # j => q[i] # q[j]
Batches == {q \in UNION {[1..n -> MentionIds] : n \in 0..MaxBatch} : Injective(q)}

\* what the collaborators of one handleMention call do
\* lookup: findOne of the tweet replied to finds it ("ok"), finds nothing
\* ("none") or rejects ("throws")
\* content: composeContent resolves { type: 'text', content: <the tweet> }
\* ("text") or, when generateTweet fails or throws, { type: 'text', content:
\* null } ("null"); it never rejects and never resolves a falsy value
\* reply: replyToTweet resolves the response ("sent") or null ("null")
EnvOk == [lookup |-> "ok", context |-> "ok", content |-> "text", reply |-> "sent"]
EnvLookupThrows == [EnvOk EXCEPT !.lookup = "throws"]
EnvLookupNone == [EnvOk EXCEPT !.lookup = "none"]
EnvContextThrows == [EnvOk EXCEPT !.context = "throws"]
\* no tweet was composed, and the reply without a text is refused: the
\* rejection is caught inside replyToTweet, which resolves null
EnvNoContent == [EnvOk EXCEPT !.content = "null", !.reply = "null"]
EnvReplyNull == [EnvOk EXCEPT !.reply = "null"]
HandleEnvs == {EnvOk, EnvLookupThrows, EnvLookupNone, EnvContextThrows, EnvNoContent,
               EnvReplyNull}

Outcome(mention, what, replied, advanced) ==
    [id |-> mention.id, outcome |-> what, replied |-> replied, advanced |-> advanced,
     written |-> FALSE]

\* whether a handling that ends as `what` has reached the call of
\* saveLastProcessedMentionId: it is the last statement of the try block, after
\* the content check, replyToTweet and storeTweet. The check of Polling.js,
\* if (!content), looks at the object composeContent resolved, which is never
\* falsy: a handling without a composed tweet goes on to the save. The check
\* of part_001, if (!content || !content.content), returns
SaveReached(what) == what = "handled" \/ (what = "nocontent" /\ pImpl = "polling")

\* saveLastProcessedMentionId(mentionId): whether the in-memory cursor is
\* assigned, `written` telling whether the awaited updateOne fulfilled; the
\* assignment follows the await inside the try block, and the catch only logs
CursorAssignedBeforeWrite(written) == TRUE
CursorAssigned(written) == written

\* await service.saveLastProcessedMentionId(mention.id) settles for the
\* handling logged as o: whether the write succeeded and the cursor was assigned
AfterSave(o, written) ==
    [o EXCEPT !.written = written, !.advanced = CursorAssigned(written)]

\* handleMention(service, mention), userId being what getCachedUserId returned
handleMention(mention, userId, env) ==
    IF mention.author_id = userId
    THEN Outcome(mention, "skipped", FALSE, FALSE)
    ELSE IF pImpl = "polling" /\ mention.replied_to # "none" /\ env.lookup = "throws"
    THEN Outcome(mention, "threw", FALSE, FALSE)
    ELSE IF pImpl = "polling" /\ mention.replied_to = userId /\ env.lookup = "ok"
    THEN Outcome(mention, "skipped", FALSE, FALSE)
    ELSE IF env.context = "throws"
    THEN Outcome(mention, "failed", FALSE, FALSE)
    ELSE IF env.content = "null" /\ pImpl = "part001"
    THEN Outcome(mention, "nocontent", FALSE, FALSE)
    ELSE Outcome(mention, IF env.content = "null" THEN "nocontent" ELSE "handled",
                 env.reply = "sent", FALSE)

\* since_id of the fetch
SinceId == IF pImpl = "part001" THEN lastProcessedMentionId ELSE 0

\* the loop body is over: next mention, or the end of the try block
MentionStep(pc) ==
    IF mIdx < Len(mBatch)
    THEN /\ mIdx' = mIdx + 1
         /\ mPc' = pc
         /\ mEnd' = mEnd
    ELSE /\ mIdx' = mIdx
         /\ mPc' = "idle"
         /\ mEnd' = "completed"

\* the timer of the chain fires: poll() up to its fetch
MentionPoll ==
    /\ mPc = "idle"
    /\ mCycles < MaxPolls
    /\ mPc' = "identifying"
    /\ mCycles' = mCycles + 1
    /\ mBatch' = <<>>
    /\ mIdx' = 0
    /\ mLog' = <<>>
    /\ mEnd' = "running"
    /\ UNCHANGED <<mUserId, mSince, lastProcessedMentionId, mReplies, otherThanMention>>

\* getCachedUserId settles and userMentionTimeline is called, in part_001 with
\* the cursor of this moment as since_id
MentionIdentified(userId) ==
    /\ mPc = "identifying"
    /\ mUserId' = userId
    /\ mSince' = SinceId
    /\ mPc' = "fetching"
    /\ UNCHANGED <<mBatch, mIdx, lastProcessedMentionId, mLog, mEnd, mCycles, mReplies,
                   otherThanMention>>

\* userMentionTimeline settles: the mentions newer than the since_id it was
\* called with. hasData: the page carries a data array; a page of no mention
\* may come without one (only meta.result_count = 0). Polling.js iterates
\* mentions.data.data as it is: without the array the for statement throws a
\* TypeError and the cycle ends in the catch block; over an empty array the
\* loop ends at once. part_001 returns before the loop when result_count is 0
MentionFetched(ok, hasData, batch) ==
    /\ mPc = "fetching"
    /\ \A i \in DOMAIN batch : batch[i] > mSince
    /\ hasData \/ Len(batch) = 0
    /\ IF mUserId = NoUser \/ ~ok
       THEN /\ mPc' = "idle"
            /\ mEnd' = "error"
            /\ UNCHANGED <<mBatch, mIdx>>
       ELSE IF Len(batch) = 0
       THEN /\ mPc' = "idle"
            /\ mEnd' = IF pImpl = "part001" THEN "returned"
                       ELSE IF hasData THEN "completed" ELSE "error"
            /\ UNCHANGED <<mBatch, mIdx>>
       ELSE /\ mPc' = "handling"
            /\ mBatch' = batch
            /\ mIdx' = 1
            /\ mEnd' = mEnd
    /\ UNCHANGED <<mUserId, mSince, lastProcessedMentionId, mLog, mCycles, mReplies,
                   otherThanMention>>

\* one pass of the for loop up to the return of handleMention or, when the
\* handling gets that far, up to the reply: replyToTweet has settled, storeTweet
\* and the write of the cursor are still to come
MentionHandled(userId, env) ==
    /\ mPc = "handling"
    /\ LET mention == Mention(mBatch[mIdx])
           out == handleMention(mention, userId, env)
       IN  IF pImpl = "part001" /\ mention.author_id = mUserId
           THEN /\ mLog' = Append(mLog, Outcome(mention, "skipped", FALSE, FALSE))
                /\ MentionStep("handling")
                /\ UNCHANGED <<lastProcessedMentionId, mReplies>>
           ELSE /\ mLog' = Append(mLog, out)
                /\ UNCHANGED lastProcessedMentionId
                /\ mReplies' = IF out.replied
                               THEN [mReplies EXCEPT ![mention.id] = @ + 1]
                               ELSE mReplies
                /\ IF out.outcome = "threw"
                   THEN /\ mPc' = "idle"
                        /\ mEnd' = "error"
                        /\ mIdx' = mIdx
                   ELSE /\ mPc' = IF SaveReached(out.outcome) THEN "saving" ELSE "pacing"
                        /\ UNCHANGED <<mIdx, mEnd>>
    /\ UNCHANGED <<mUserId, mSince, mBatch, mCycles, otherThanMention>>

\* storeTweet has settled (it catches its own errors) and the updateOne of
\* saveLastProcessedMentionId settles: the cursor is assigned if the write
\* succeeded, handleMention returns and the pacing wait starts
MentionSaved(written) ==
    /\ mPc = "saving"
    /\ LET out == AfterSave(mLog[Len(mLog)], written)
       IN  /\ mLog' = [mLog EXCEPT ![Len(mLog)] = out]
           /\ lastProcessedMentionId' =
                  IF out.advanced THEN out.id ELSE lastProcessedMentionId
    /\ mPc' = "pacing"
    /\ UNCHANGED <<mUserId, mSince, mBatch, mIdx, mEnd, mCycles, mReplies, otherThanMention>>

\* the wait between two mentions is over
MentionPaced ==
    /\ mPc = "pacing"
    /\ MentionStep("handling")
    /\ UNCHANGED <<mUserId, mSince, mBatch, lastProcessedMentionId, mLog, mCycles, mReplies,
                   otherThanMention>>

\* loadLastProcessedMentionId(), awaited by TwitterService.initialize() before
\* any poll: the cursor is the mentionId of the stored record, if findOne
\* fulfils with one (NoRecord: no record); a rejection is caught and logged
loadLastProcessedMentionId(ok, record) ==
    /\ mPc = "idle"
    /\ mCycles = 0
    /\ dCalls = 0
    /\ lastProcessedMentionId = 0
    /\ lastProcessedMentionId' = IF ok /\ record # NoRecord THEN record
                                 ELSE lastProcessedMentionId
    /\ UNCHANGED <<mPc, mUserId, mSince, mBatch, mIdx, mLog, mEnd, mCycles, mReplies,
                   otherThanMention>>

MaxDirect == 1      \* calls of the method TwitterService.handleMention followed

NoDirect == [id |-> NoRecord, outcome |-> "none", replied |-> FALSE, advanced |-> FALSE,
             written |-> FALSE]

\* TwitterService.handleMention(mention) up to the return of replyToTweet:
\* a mention of the bot's own returns at once, a rejection of searchContext
\* rejects the call, replyToTweet is called with whatever composeContent
\* resolved and resolves null when the reply fails; there is no look at the
\* tweet replied to and no check of the content
DirectCalled(id, userId, env) ==
    /\ dPc = "idle"
    /\ dCalls < MaxDirect
    /\ dCalls' = dCalls + 1
    /\ LET mention == Mention(id)
           replied == env.reply = "sent"
       IN  IF mention.author_id = userId
           THEN /\ direct' = Outcome(mention, "skipped", FALSE, FALSE)
                /\ dPc' = "idle"
                /\ mReplies' = mReplies
           ELSE IF env.context = "throws"
           THEN /\ direct' = Outcome(mention, "threw", FALSE, FALSE)
                /\ dPc' = "idle"
                /\ mReplies' = mReplies
           ELSE /\ direct' = Outcome(mention, IF env.content = "text" THEN "handled" ELSE "nocontent",
                                     replied, FALSE)
                /\ dPc' = "saving"
                /\ mReplies' = IF replied THEN [mReplies EXCEPT ![id] = @ + 1]
                               ELSE mReplies
    /\ UNCHANGED <<mPc, mUserId, mSince, mBatch, mIdx, lastProcessedMentionId, mLog, mEnd, mCycles>>
    /\ UNCHANGED otherThanMentionAndDirect

\* storeTweet has settled and the updateOne of saveLastProcessedMentionId
\* settles; the method returns the reply
DirectSaved(written) ==
    /\ dPc = "saving"
    /\ direct' = AfterSave(direct, written)
    /\ lastProcessedMentionId' = IF direct'.advanced THEN direct.id ELSE lastProcessedMentionId
    /\ dPc' = "idle"
    /\ UNCHANGED <<mPc, mUserId, mSince, mBatch, mIdx, mLog, mEnd, mCycles, mReplies, dCalls>>
    /\ UNCHANGED otherThanMentionAndDirect

DirectInit ==
    /\ dPc = "idle"
    /\ dCalls = 0
    /\ direct = NoDirect

MentionInit ==
    /\ mPc = "idle"
    /\ mUserId = NoUser
    /\ mSince = NoRecord
    /\ mBatch = <<>>
    /\ mIdx = 0
    /\ lastProcessedMentionId = 0
    /\ mLog = <<>>
    /\ mEnd = "completed"
    /\ mCycles = 0
    /\ mReplies = [id \in MentionIds |-> 0]

MentionNext ==
    \/ MentionPoll
    \/ \E userId \in UserIds : MentionIdentified(userId)
    \/ \E ok, hasData \in BOOLEAN, batch \in Batches : MentionFetched(ok, hasData, batch)
    \/ \E userId \in UserIds, env \in HandleEnvs : MentionHandled(userId, env)
    \/ \E written \in BOOLEAN : MentionSaved(written)
    \/ MentionPaced
    \/ \E ok \in BOOLEAN, record \in MentionIds \cup {NoRecord} :
           loadLastProcessedMentionId(ok, record)

---------------------------------------------------------------------------
(* The retry helpers attempt by attempt: retryFetch and makeRequest of
   src/modules/xHandler/TwitterService.js, executeWithRateLimit of src/xHandler.js *)
MaxHelperCalls == 2     \* calls followed
MaxAttemptsSeen == 7    \* attempts counted; the value stands for "that many or more"

Helpers == {"retryFetch", "executeWithRateLimit", "makeRequest"}
HelperCalls == 1..MaxHelperCalls
AttemptOutcomes == {"ok", "throttled", "error"}
NoHelperCall == [helper |-> "none", pc |-> "idle", attempts |-> 0, odd |-> FALSE]

\* attempts after which a throttled attempt is not followed by another one
\* (0: no such number)
AttemptLimit(helper) ==
    IF helper = "retryFetch" THEN maxRetries
    ELSE IF helper = "executeWithRateLimit" THEN 1 + Len(retryDelays)
    ELSE 0

\* the apiCall is invoked once more; odd tells whether the number of attempts made,
\* counted or not, is odd
AnotherAttempt(call) ==
    [call EXCEPT !.attempts = Min(@ + 1, MaxAttemptsSeen), !.odd = ~@]

\* the catch block of the helper after an attempt that was throttled
AfterThrottled(call) ==
    IF AttemptLimit(call.helper) = 0 \/ call.attempts < AttemptLimit(call.helper)
    THEN AnotherAttempt(call)
    ELSE [call EXCEPT !.pc = "thrown"]

\* the helper is called: it makes its first attempt
HelperCall(c, helper) ==
    /\ hCalls[c].pc = "idle"
    /\ hCalls' = [hCalls EXCEPT ![c] = [helper |-> helper, pc |-> "calling",
                                        attempts |-> 1, odd |-> TRUE]]
    /\ UNCHANGED otherThanHelper

\* the attempt in progress settles
HelperAttemptSettled(c, out) ==
    /\ hCalls[c].pc = "calling"
    /\ hCalls' = [hCalls EXCEPT ![c] =
           IF out = "ok" THEN [@ EXCEPT !.pc = "returned"]
           ELSE IF out = "error" THEN [@ EXCEPT !.pc = "thrown"]
           ELSE AfterThrottled(@)]
    /\ UNCHANGED otherThanHelper

HelperInit == hCalls = [c \in HelperCalls |-> NoHelperCall]

HelperNext ==
    \/ \E c \in HelperCalls, helper \in Helpers : HelperCall(c, helper)
    \/ \E c \in HelperCalls, out \in AttemptOutcomes : HelperAttemptSettled(c, out)

\* every attempt made settles
HelperFairness ==
    \A c \in HelperCalls : WF_vars(\E out \in AttemptOutcomes : HelperAttemptSettled(c, out))

---------------------------------------------------------------------------
(* getCachedUserId: src/modules/xHandler/TwitterService.js *)
MaxIdCalls == 3     \* calls of getCachedUserId followed
MaxIdTicks == 4     \* steps of the clock

userCacheTtl == 5 * 60 * 1000
\* the clock moves by half the ttl, so that exactly ttl elapses after two steps
IdStepMs == userCacheTtl \div 2

IdCalls == 1..MaxIdCalls
NoIdCall == [pc |-> "idle", result |-> NoUser, remote |-> 0]
EmptyCache == [userId |-> NoUser, lastFetched |-> 0]

\* a cache that is still fresh when exactly ttl has elapsed
CacheFreshInclusive(cache, t) ==
    cache.userId # NoUser /\ (t - cache.lastFetched) <= userCacheTtl

\* this.userCache.userId && (Date.now() - this.userCache.lastFetched) < this.userCache.ttl
CacheFresh(cache, t) ==
    cache.userId # NoUser /\ (t - cache.lastFetched) < userCacheTtl

\* getCachedUserId up to its return or to await this.rwClient.currentUserV2()
IdCall(c) ==
    /\ idCalls[c].pc = "idle"
    /\ idCalls' = [idCalls EXCEPT ![c] =
           IF CacheFresh(userCache, now)
           THEN [pc |-> "done", result |-> userCache.userId, remote |-> 0]
           ELSE [pc |-> "awaiting", result |-> NoUser, remote |-> 1]]
    /\ UNCHANGED <<now, userCache>>
    /\ UNCHANGED otherThanIdentity

\* currentUserV2 settles: the id is stored with Date.now(), or null is returned
IdSettled(c, ok) ==
    /\ idCalls[c].pc = "awaiting"
    /\ idCalls' = [idCalls EXCEPT ![c] =
           [@ EXCEPT !.pc = "done", !.result = IF ok THEN BotId ELSE NoUser]]
    /\ userCache' = IF ok THEN [userId |-> BotId, lastFetched |-> now] ELSE userCache
    /\ UNCHANGED now
    /\ UNCHANGED otherThanIdentity

IdTick ==
    /\ now < MaxIdTicks * IdStepMs
    /\ now' = now + IdStepMs
    /\ UNCHANGED identityVars
    /\ UNCHANGED otherThanIdentity

IdentityInit ==
    /\ userCache = EmptyCache
    /\ idCalls = [c \in IdCalls |-> NoIdCall]

IdentityNext ==
    \/ \E c \in IdCalls : IdCall(c)
    \/ \E c \in IdCalls, ok \in BOOLEAN : IdSettled(c, ok)
    \/ IdTick

---------------------------------------------------------------------------
(* postNFTImage: CONTRIBUTING.md *)
MaxNftCalls == 3    \* calls of postNFTImage followed

Mints == {"mintA", "mintB"}
NftCalls == 1..MaxNftCalls
NoNftCall == [mint |-> "none", pc |-> "idle", result |-> "none"]

\* postNFTImage(nft) up to its return or to its first await
postNFTImage(c, mint) ==
    /\ nftCalls[c].pc = "idle"
    /\ nftCalls' = [nftCalls EXCEPT ![c] =
           IF mint \in postedNFTs
           THEN [mint |-> mint, pc |-> "done", result |-> "null"]
           ELSE [mint |-> mint, pc |-> "posting", result |-> "none"]]
    /\ UNCHANGED <<postedNFTs, nftPosts>>
    /\ UNCHANGED otherThanNft

\* readFile, uploadImageToS3 and rwClient.v2.tweet settle: the mint is recorded
\* once the tweet is made, or the error is caught and null returned
NftSettled(c, ok) ==
    /\ nftCalls[c].pc = "posting"
    /\ nftCalls' = [nftCalls EXCEPT ![c] =
           [@ EXCEPT !.pc = "done", !.result = IF ok THEN "response" ELSE "null"]]
    /\ postedNFTs' = IF ok THEN postedNFTs \cup {nftCalls[c].mint} ELSE postedNFTs
    /\ nftPosts' = IF ok THEN [nftPosts EXCEPT ![nftCalls[c].mint] = @ + 1] ELSE nftPosts
    /\ UNCHANGED otherThanNft

NftInit ==
    /\ postedNFTs = {}
    /\ nftCalls = [c \in NftCalls |-> NoNftCall]
    /\ nftPosts = [mint \in Mints |-> 0]

NftNext ==
    \/ \E c \in NftCalls, mint \in Mints : postNFTImage(c, mint)
    \/ \E c \in NftCalls, ok \in BOOLEAN : NftSettled(c, ok)

---------------------------------------------------------------------------
(* AIHandler of src/src/aiHandler.js ("robust") and src/aiHandler.js         *)
(* ("plain"): updateLimits, and waitForRateLimit as awaited first by         *)
(* generateResponse and generateCompletion                                   *)
MaxAiCalls == 3      \* calls of generateResponse / generateCompletion followed
MaxAiTicks == 3      \* the clock runs MaxAiTicks steps from the construction

AiStepMs == 500
\* Date.now() when the handler is constructed
AiStartMs == 2000
\* this.rateLimit = { requests: 1, interval: 1000, lastRequest: 0,
\*                    creditsRemaining: null, ... }
InitialRequests == 1
aiInterval == 1000
\* Math.min(this.rateLimit.creditsRemaining, 200)
RequestsCap == 200
\* 1000 / 0: it stands for a value above every timestamp and every difference
Infinity == 2147483647

AiImpls == {"robust", "plain"}
AiCalls == 1..MaxAiCalls
NoAiCall == [pc |-> "idle", timer |-> NoTimer, minInterval |-> 0]

\* this.rateLimit.creditsRemaining: null, or a number
NullCredits == [null |-> TRUE, n |-> 0]
Credits(n) == [null |-> FALSE, n |-> n]
\* keyInfo.data.limit - keyInfo.data.usage as the provider may report it
CreditsReported == {0, 1, 2, 500}

\* const minInterval = this.rateLimit.interval / Math.max(this.rateLimit.requests, 1)
\* in src/src/aiHandler.js, this.rateLimit.interval / this.rateLimit.requests
\* in src/aiHandler.js
minInterval ==
    IF aiImpl = "robust" THEN aiInterval \div Max(aiRequests, 1)
    ELSE IF aiRequests = 0 THEN Infinity
    ELSE aiInterval \div aiRequests

\* setTimeout(resolve, minInterval - timeSinceLastRequest): Infinity less a
\* number is Infinity, which is above the longest delay a timer takes
AiDelay(timeSince) ==
    IF minInterval = Infinity THEN 1 ELSE TimerDelay(minInterval - timeSince)

\* updateLimits(), called without await by the constructor and after every
\* tenth credit, settles: both fetches fulfilled and were valid (ok), or the
\* catch logs and leaves the limits alone
updateLimits(ok, credits) ==
    /\ aiUpdating > 0
    /\ aiUpdating' = aiUpdating - 1
    /\ aiCredits' = IF ok THEN Credits(credits) ELSE aiCredits
    /\ aiRequests' = IF ok THEN Min(credits, RequestsCap) ELSE aiRequests
    /\ UNCHANGED <<aiImpl, aiLastRequest, aiCalls, aiReleases>>
    /\ UNCHANGED now
    /\ UNCHANGED otherThanAi

\* this.rateLimit.lastRequest = Date.now(): the request goes on to the provider
Released(c) ==
    /\ aiLastRequest' = now
    /\ aiCalls' = [aiCalls EXCEPT ![c].pc = "released", ![c].timer = NoTimer]
    /\ aiReleases' = Append(aiReleases, now)

\* generateResponse / generateCompletion is called: waitForRateLimit up to its await
waitForRateLimit(c) ==
    /\ aiCalls[c].pc = "idle"
    /\ LET timeSinceLastRequest == now - aiLastRequest
       IN  IF timeSinceLastRequest < minInterval
           THEN /\ aiCalls' = [aiCalls EXCEPT ![c] =
                       [pc |-> "waiting",
                        timer |-> now + AiDelay(timeSinceLastRequest),
                        minInterval |-> minInterval]]
                /\ UNCHANGED <<aiLastRequest, aiReleases>>
           ELSE /\ aiLastRequest' = now
                /\ aiCalls' = [aiCalls EXCEPT ![c] =
                       [pc |-> "released", timer |-> NoTimer, minInterval |-> minInterval]]
                /\ aiReleases' = Append(aiReleases, now)
    /\ UNCHANGED <<aiImpl, aiRequests, aiCredits, aiUpdating>>
    /\ UNCHANGED now
    /\ UNCHANGED otherThanAi

\* the timer of waitForRateLimit fires
AiWake(c) ==
    /\ aiCalls[c].pc = "waiting"
    /\ TimerDue(aiCalls[c].timer)
    /\ Released(c)
    /\ UNCHANGED <<aiImpl, aiRequests, aiCredits, aiUpdating>>
    /\ UNCHANGED now
    /\ UNCHANGED otherThanAi

\* the request of a released call settles: on success creditsRemaining-- (null
\* counts as 0) and, if the result is a multiple of ten, updateLimits() is
\* called and not awaited; on failure the error text is returned
AiSettled(c, ok) ==
    /\ aiCalls[c].pc = "released"
    /\ aiCalls' = [aiCalls EXCEPT ![c].pc = "done"]
    /\ aiCredits' = IF ok THEN Credits(aiCredits.n - 1) ELSE aiCredits
    /\ aiUpdating' = IF ok /\ (aiCredits.n - 1) % 10 = 0 THEN aiUpdating + 1 ELSE aiUpdating
    /\ UNCHANGED <<aiImpl, aiRequests, aiLastRequest, aiReleases>>
    /\ UNCHANGED now
    /\ UNCHANGED otherThanAi

AiTick ==
    /\ now < AiStartMs + MaxAiTicks * AiStepMs
    /\ now' = now + AiStepMs
    /\ UNCHANGED aiVars
    /\ UNCHANGED otherThanAi

\* the constructor has returned: its updateLimits() call is in flight
AiInit ==
    /\ aiRequests = InitialRequests
    /\ aiCredits = NullCredits
    /\ aiUpdating = 1
    /\ aiLastRequest = 0
    /\ aiCalls = [c \in AiCalls |-> NoAiCall]
    /\ aiReleases = <<>>

AiNext ==
    \/ AiTick
    \/ \E ok \in BOOLEAN, credits \in CreditsReported : updateLimits(ok, credits)
    \/ \E c \in AiCalls : waitForRateLimit(c)
    \/ \E c \in AiCalls : AiWake(c)
    \/ \E c \in AiCalls, ok \in BOOLEAN : AiSettled(c, ok)

---------------------------------------------------------------------------
(* handleMention of src/xHandler.js: an operation on the 'reply' lane whose  *)
(* body calls replyToTweet, another operation on the 'reply' lane, and       *)
(* awaits it.  Timers are followed without a clock: a timer set fires later. *)
MaxNestCalls == 2    \* handleMention calls followed

NestCalls == 1..MaxNestCalls
NoNestCall == [pc |-> "idle", inner |-> "none", retries |-> 0, result |-> "none"]
NestOutcomes == {"ok", "throttled", "bare429", "error"}

NestSettled(c) == nCalls[c].pc \in {"done", "failed"}

\* what this.queues.get('reply') holds when replyToTweet chains its callback
\* onto it: the Promise.resolve() of line 117, never the promise of the
\* operation that is running
LaneTailChained == "caller"
LaneTail == "resolved"

\* the promise the callback of replyToTweet is chained onto has fulfilled
LaneOpen(c) == LaneTail = "resolved" \/ NestSettled(c)

\* handleMention(mention): executeWithRateLimit('reply', ...) up to the first
\* suspension; limited: Date.now() < limit.reset
XHandleMention(c, limited) ==
    /\ nCalls[c].pc = "idle"
    /\ nCalls' = [nCalls EXCEPT ![c].pc = IF nLimit /\ limited THEN "wait" ELSE "compose"]
    /\ UNCHANGED nLimit
    /\ UNCHANGED otherThanNest

\* the timer of checkRateLimit fires: the body of handleMention starts
XOuterWake(c) ==
    /\ nCalls[c].pc = "wait"
    /\ nCalls' = [nCalls EXCEPT ![c].pc = "compose"]
    /\ UNCHANGED nLimit
    /\ UNCHANGED otherThanNest

\* searchContext and composeContent settle; then replyToTweet is called and
\* awaited: executeWithRateLimit('reply', ...) up to its first suspension
XComposed(c, ok, limited) ==
    /\ nCalls[c].pc = "compose"
    /\ nCalls' = [nCalls EXCEPT ![c] =
           IF ~ok
           THEN [@ EXCEPT !.pc = "failed", !.result = "error"]
           ELSE [@ EXCEPT !.pc = "reply",
                          !.inner = IF ~LaneOpen(c) THEN "blocked"
                                    ELSE IF nLimit /\ limited THEN "wait"
                                    ELSE "run"]]
    /\ UNCHANGED nLimit
    /\ UNCHANGED otherThanNest

\* the callback of replyToTweet gets to its operation(): the timer of
\* checkRateLimit fired, or the promise it was chained onto has fulfilled
XInnerWake(c) ==
    /\ \/ nCalls[c].inner = "wait"
       \/ nCalls[c].inner = "blocked" /\ LaneOpen(c)
    /\ nCalls' = [nCalls EXCEPT ![c].inner = "run"]
    /\ UNCHANGED nLimit
    /\ UNCHANGED otherThanNest

\* replyToTweet rejected: the await in the body of handleMention throws, and the
\* catch of the outer executeWithRateLimit rethrows what is not a 429
InnerFailed(call, err) == [call EXCEPT !.inner = "failed", !.pc = "failed", !.result = err]

\* an attempt of the reply settles
XInnerSettled(c, out) ==
    /\ nCalls[c].inner = "run"
    /\ nCalls' = [nCalls EXCEPT ![c] =
           IF out = "ok" THEN [@ EXCEPT !.inner = "done", !.pc = "store"]
           ELSE IF out = "error" THEN InnerFailed(@, "error")
           ELSE IF @.retries = 0
           THEN IF out = "bare429"
                THEN InnerFailed(@, "TypeError")
                ELSE [@ EXCEPT !.inner = "backoff"]
           ELSE IF @.retries < Len(retryDelays)
                THEN [@ EXCEPT !.inner = "backoff"]
                ELSE InnerFailed(@, "RateLimitExceeded")]
    /\ nLimit' = (nLimit \/ (out = "throttled" /\ nCalls[c].retries = 0))
    /\ UNCHANGED otherThanNest

\* the backoff timer fires: the reply is attempted again
XInnerRetry(c) ==
    /\ nCalls[c].inner = "backoff"
    /\ nCalls' = [nCalls EXCEPT ![c].inner = "run", ![c].retries = @ + 1]
    /\ UNCHANGED nLimit
    /\ UNCHANGED otherThanNest

\* storeTweet and saveLastProcessedMentionId settle (both catch their own
\* errors): handleMention returns the reply
XStored(c) ==
    /\ nCalls[c].pc = "store"
    /\ nCalls' = [nCalls EXCEPT ![c].pc = "done", ![c].result = "reply"]
    /\ UNCHANGED nLimit
    /\ UNCHANGED otherThanNest

NestInit ==
    /\ nCalls = [c \in NestCalls |-> NoNestCall]
    /\ nLimit = FALSE

\* what a handleMention call in progress does next
NestProgress(c) ==
    \/ XOuterWake(c)
    \/ \E ok \in BOOLEAN, limited \in BOOLEAN : XComposed(c, ok, limited)
    \/ XInnerWake(c)
    \/ \E out \in NestOutcomes : XInnerSettled(c, out)
    \/ XInnerRetry(c)
    \/ XStored(c)

NestNext ==
    \/ \E c \in NestCalls, limited \in BOOLEAN : XHandleMention(c, limited)
    \/ \E c \in NestCalls : XOuterWake(c)
    \/ \E c \in NestCalls, ok \in BOOLEAN, limited \in BOOLEAN : XComposed(c, ok, limited)
    \/ \E c \in NestCalls : XInnerWake(c)
    \/ \E c \in NestCalls, out \in NestOutcomes : XInnerSettled(c, out)
    \/ \E c \in NestCalls : XInnerRetry(c)
    \/ \E c \in NestCalls : XStored(c)

\* every timer set fires and every remote call settles
NestFairness == \A c \in NestCalls : WF_vars(NestProgress(c))

---------------------------------------------------------------------------
(* generateTweet of src/services/promptService.js on top of                  *)
(* AIHandler.generateCompletion of src/aiHandler.js.  A text is a sequence   *)
(* of lines, a line a sequence of words separated by one space.              *)
MaxLineWords == 2       \* words on one line of a completion
MaxTextLines == 2       \* lines of a completion

\* the kinds of word a completion is made of: a plain word, a URL, an ETH
\* address, a Solana address, two mentions, and a stretch of EssayChars
\* characters of plain text
Words == {"gm", "url", "eth", "sol", "@a", "@b", "essay"}
EssayChars == 700
Removed == ""           \* what a replace(..., '') leaves of a word

WordChars(w) ==
    CASE w = "gm"         -> 2
      [] w = "@a"         -> 2
      [] w = "@b"         -> 2
      [] w = "a"          -> 1
      [] w = "b"          -> 1
      [] w = "essay"      -> EssayChars
      [] w = "alien"      -> 4     \* the four characters that stand before "Error"
      [] w = "Error"      -> 5
      [] w = "generating" -> 10
      [] w = "completion" -> 10
      [] OTHER            -> 0

LinesOf(ws) == UNION {[1..n -> ws] : n \in 0..MaxLineWords}
Completions == UNION {[1..n -> LinesOf(Words)] : n \in 1..MaxTextLines}

\* the string generateCompletion returns from its catch block
ErrorText == << <<"alien", "Error", "generating", "completion">> >>

\* generateCompletion(prompt): the text of the first choice, or the string of
\* the catch block when the request failed
generateCompletion(ok, text) == IF ok THEN text ELSE ErrorText

RECURSIVE TrimStart(_)
TrimStart(t) == IF Len(t) > 1 /\ t[1] = <<>> THEN TrimStart(Tail(t)) ELSE t
RECURSIVE TrimEnd(_)
TrimEnd(t) ==
    IF Len(t) > 1 /\ t[Len(t)] = <<>> THEN TrimEnd(SubSeq(t, 1, Len(t) - 1)) ELSE t
\* raw.trim()
Trim(t) == TrimEnd(TrimStart(t))

\* lines.filter((line, idx) => lines.indexOf(line) === idx)
RECURSIVE RemoveDuplicateLines(_)
RemoveDuplicateLines(t) ==
    IF t = <<>> THEN <<>>
    ELSE LET n    == Len(t)
             head == RemoveDuplicateLines(SubSeq(t, 1, n - 1))
         IN  IF \E j \in 1..(n - 1) : t[j] = t[n] THEN head ELSE Append(head, t[n])

\* the three replace(..., '') calls: URLs, ETH addresses, Solana addresses
FilterOut(t) ==
    [i \in DOMAIN t |->
        [k \in DOMAIN t[i] |->
            IF t[i][k] \in {"url", "eth", "sol"} THEN Removed ELSE t[i][k]]]

IsTag(w) == w \in {"@a", "@b"}
Untagged(w) == IF w = "@a" THEN "a" ELSE IF w = "@b" THEN "b" ELSE w

RECURSIVE Flat(_)
Flat(t) == IF t = <<>> THEN <<>> ELSE Head(t) \o Flat(Tail(t))

\* tweetText.match(/@[a-zA-Z0-9_]+/g)
TagMatches(t) == SelectSeq(Flat(t), IsTag)

\* every tag but the first distinct one loses its '@', wherever it occurs
DeduplicateTags(t) ==
    LET tags == TagMatches(t)
    IN  IF tags = <<>> THEN t
        ELSE [i \in DOMAIN t |->
                [k \in DOMAIN t[i] |->
                    IF IsTag(t[i][k]) /\ t[i][k] # tags[1]
                    THEN Untagged(t[i][k]) ELSE t[i][k]]]

\* lines 94-122: raw text to tweet text
TweetText(raw) == DeduplicateTags(FilterOut(RemoveDuplicateLines(Trim(raw))))

RECURSIVE LineChars(_)
LineChars(l) ==
    IF l = <<>> THEN 0
    ELSE WordChars(Head(l)) + (IF Len(l) > 1 THEN 1 ELSE 0) + LineChars(Tail(l))
\* tweetText.length
RECURSIVE TextLength(_)
TextLength(t) ==
    IF t = <<>> THEN 0
    ELSE LineChars(Head(t)) + (IF Len(t) > 1 THEN 1 ELSE 0) + TextLength(Tail(t))

\* the options of the callers: the defaults, composeTweetContent's, one attempt
GtOptions ==
    {[maxAttempts |-> 5, maxLength |-> 728],
     [maxAttempts |-> 5, maxLength |-> 600],
     [maxAttempts |-> 1, maxLength |-> 728]}

NoText == <<>>
NotReturned == [success |-> FALSE, tweet |-> NoText, error |-> "pending"]
Success(text) == [success |-> TRUE, tweet |-> text, error |-> "none"]
Failure(why) == [success |-> FALSE, tweet |-> NoText, error |-> why]

\* the end of one pass of the for loop that neither returned nor was the last
NextAttempt(why) ==
    IF gt.attempt < gt.opts.maxAttempts
    THEN [gt EXCEPT !.pc = "completing", !.attempt = @ + 1, !.text = NoText]
    ELSE [gt EXCEPT !.pc = "returned", !.text = NoText, !.result = Failure(why)]

\* generateTweet(userInput, context, options) up to its first completion
generateTweet(opts, built) ==
    /\ gt.pc = "idle"
    /\ gt' = IF built
             THEN [gt EXCEPT !.pc = "completing", !.opts = opts, !.attempt = 1]
             ELSE [gt EXCEPT !.pc = "rejected", !.opts = opts]
    /\ UNCHANGED otherThanTweet

\* await aiHandler.generateCompletion settles: clean-up and length test
GtCompleted(ok, text) ==
    /\ gt.pc = "completing"
    /\ LET tweetText == TweetText(generateCompletion(ok, text))
       IN  gt' = IF TextLength(tweetText) > gt.opts.maxLength
                 THEN [NextAttempt("no valid response") EXCEPT !.completed = ok]
                 ELSE [gt EXCEPT !.pc = "storing", !.text = tweetText, !.completed = ok]
    /\ UNCHANGED otherThanTweet

\* await storeMemory settles
GtStored(out) ==
    /\ gt.pc = "storing"
    /\ gt' = CASE out = "ok"    -> [gt EXCEPT !.pc = "returned", !.result = Success(gt.text)]
               [] out = "e429"  -> [gt EXCEPT !.pc = "waiting"]
               [] out = "error" -> NextAttempt("failed")
    /\ UNCHANGED otherThanTweet

\* the 10 s wait of the catch block is over
GtWaited ==
    /\ gt.pc = "waiting"
    /\ gt' = NextAttempt("failed")
    /\ UNCHANGED otherThanTweet

TweetInit ==
    gt = [pc |-> "idle", opts |-> [maxAttempts |-> 5, maxLength |-> 728], attempt |-> 0,
          completed |-> FALSE, text |-> NoText, result |-> NotReturned]

TweetNext ==
    \/ \E opts \in GtOptions, built \in BOOLEAN : generateTweet(opts, built)
    \/ \E ok \in BOOLEAN, text \in Completions : GtCompleted(ok, text)
    \/ \E out \in {"ok", "e429", "error"} : GtStored(out)
    \/ GtWaited

---------------------------------------------------------------------------
(* ShadowBot.handleMessage and debounce of src/shadowbot.js ("shadowbot"),   *)
(* and VoidGoblinBot.handleMessage of unnamed/part_010 ("part010")           *)
MaxMessages == 3        \* MessageCreate events followed
MaxChatTicks == 2       \* clock steps followed

debounceTime == 5000
\* if (Date.now() - this.lastResponseTime < 15000) return;
responseWindow == 15000
\* NEXT_UPDATE_TIME = Date.now() + (1000 * 60 * 60)
UpdateEveryMs == 1000 * 60 * 60
ChatStepMs == 2500
ChatStartMs == 10000    \* Date.now() at the first event, long after lastProcessed: 0

BotImpls == {"shadowbot", "part010"}
Messages == 1..MaxMessages
\* generateMessageHash(displayName || globalName, content, channel.name): the
\* name an author shows, which a user may share with the bot or with another
\* user, and the content with its channel
AuthorNames == {"alice", "bob"}
Contents == {1, 2}
\* setInterval(() => this._messageHashes.clear(), 3600000) of the constructor
hashCleanupEvery == 3600000
\* Date.now() at the construction of the bot: the first clearing of the hashes
\* is due one clock step after the first event
ChatConstructedMs == ChatStartMs + ChatStepMs - hashCleanupEvery
NoChatCall == [pc |-> "none", prompt |-> <<>>]

RECURSIVE Range(_)
Range(q) == IF q = <<>> THEN {} ELSE {Head(q)} \cup Range(Tail(q))

\* debounce() of shadowbot.js, and the test of lastResponseTime of part_010:
\* whether the call goes on, and the time of the last response after it
DebouncePasses ==
    ~(now - lastProcessed < (IF bImpl = "part010" THEN responseWindow ELSE debounceTime))
Debounced == IF DebouncePasses THEN now ELSE lastProcessed

\* this.messageCache.push(...) and what follows it up to the return or the
\* await of generateResponse
Pushed(id) ==
    LET cache == Append(messageCache, id)
    IN  /\ messageCache' = cache
        /\ lastProcessed' = Debounced
        /\ IF DebouncePasses
           THEN /\ bCalls' = [bCalls EXCEPT ![id] = [pc |-> "generating", prompt |-> cache]]
                /\ bPrompted' = bPrompted \cup Range(cache)
           ELSE /\ bCalls' = [bCalls EXCEPT ![id] = [pc |-> "returned", prompt |-> <<>>]]
                /\ UNCHANGED bPrompted

\* handleMessage(message) up to its return or its first await; the message is
\* the next one of the channel, written by the bot (fromSelf: its username or
\* id is the bot's) or by a user, under the name author.  part_010 returns at
\* once for a message whose hash it has seen, before it looks at the author,
\* and awaits dynamicPersona.update before the push when one is due
handleMessage(fromSelf, author, content) ==
    LET id   == bReceived + 1
        hash == <<author, content>>
    IN  /\ bReceived < MaxMessages
        /\ bReceived' = id
        /\ IF bImpl = "part010" /\ hash \in messageHashes
           THEN /\ bCalls' = [bCalls EXCEPT ![id] = [pc |-> "returned", prompt |-> <<>>]]
                /\ UNCHANGED <<messageCache, lastProcessed, bPrompted, messageHashes>>
           ELSE /\ messageHashes' = IF bImpl = "part010" THEN messageHashes \cup {hash}
                                    ELSE messageHashes
                /\ IF fromSelf
                   THEN /\ bCalls' = [bCalls EXCEPT
                                        ![id] = [pc |-> "returned", prompt |-> <<>>]]
                        /\ UNCHANGED <<messageCache, lastProcessed, bPrompted>>
                   ELSE IF bImpl = "part010" /\ now > nextUpdateTime
                   THEN /\ bCalls' = [bCalls EXCEPT
                                        ![id] = [pc |-> "updating", prompt |-> <<>>]]
                        /\ UNCHANGED <<messageCache, lastProcessed, bPrompted>>
                   ELSE Pushed(id)
        /\ UNCHANGED <<now, bImpl, nextUpdateTime, hashCleanupAt, otherThanChat>>

\* await dynamicPersona.update(message.content) settles (a rejection is caught
\* and logged); then the push
ChatUpdated(id, ok) ==
    /\ bCalls[id].pc = "updating"
    /\ nextUpdateTime' = IF ok THEN now + UpdateEveryMs ELSE nextUpdateTime
    /\ Pushed(id)
    /\ UNCHANGED <<now, bImpl, bReceived, messageHashes, hashCleanupAt, otherThanChat>>

\* await aiHandler.generateResponse settles: the cache is replaced by []
ChatGenerated(id, empty) ==
    /\ bCalls[id].pc = "generating"
    /\ messageCache' = <<>>
    /\ bCalls' = [bCalls EXCEPT ![id].pc = IF empty THEN "returned" ELSE "sending"]
    /\ UNCHANGED <<now, bImpl, lastProcessed, bReceived, bPrompted, messageHashes,
                   nextUpdateTime, hashCleanupAt, otherThanChat>>

\* await sendAsAvatar settles; updateMemory, incrementResponseCount
ChatSent(id) ==
    /\ bCalls[id].pc = "sending"
    /\ bCalls' = [bCalls EXCEPT ![id].pc = "returned"]
    /\ UNCHANGED <<now, bImpl, messageCache, lastProcessed, bReceived, bPrompted,
                   messageHashes, nextUpdateTime, hashCleanupAt, otherThanChat>>

\* the interval timer of the constructor of part_010 fires, on time or late:
\* the hashes are cleared, and the timer is due again an hour after this run
HashCleanup ==
    /\ bImpl = "part010"
    /\ TimerDue(hashCleanupAt)
    /\ messageHashes' = {}
    /\ hashCleanupAt' = now + TimerDelay(hashCleanupEvery)
    /\ UNCHANGED <<now, bImpl, messageCache, lastProcessed, nextUpdateTime, bCalls,
                   bReceived, bPrompted, otherThanChat>>

\* VoidGoblinBot.cleanup(): clearInterval(this._hashCleanupInterval); the
\* hashes seen so far stay and are never cleared again
botCleanup ==
    /\ bImpl = "part010"
    /\ hashCleanupAt # NoTimer
    /\ hashCleanupAt' = NoTimer
    /\ UNCHANGED <<now, bImpl, messageCache, lastProcessed, messageHashes, nextUpdateTime,
                   bCalls, bReceived, bPrompted, otherThanChat>>

\* Date.now() moves on
ChatTick ==
    /\ now < ChatStartMs + MaxChatTicks * ChatStepMs
    /\ now' = now + ChatStepMs
    /\ UNCHANGED <<chatVars, otherThanChat>>

ChatInit ==
    /\ messageCache = <<>>
    /\ lastProcessed = 0
    /\ bCalls = [id \in Messages |-> NoChatCall]
    /\ bReceived = 0
    /\ bPrompted = {}
    /\ messageHashes = {}
    /\ nextUpdateTime = 0
    /\ hashCleanupAt = ChatConstructedMs + hashCleanupEvery

ChatNext ==
    \/ \E fromSelf \in BOOLEAN, author \in AuthorNames, content \in Contents :
           handleMessage(fromSelf, author, content)
    \/ HashCleanup
    \/ botCleanup
    \/ \E id \in Messages, ok \in BOOLEAN : ChatUpdated(id, ok)
    \/ \E id \in Messages, empty \in BOOLEAN : ChatGenerated(id, empty)
    \/ \E id \in Messages : ChatSent(id)
    \/ ChatTick

---------------------------------------------------------------------------
(* Specifications: one per component; the other components stay as constructed *)
InitRetry ==
    /\ now = 0
    /\ RetryInit
    /\ QueueInit
    /\ QuotaInit
    /\ PollInit
    /\ MentionInit
    /\ HelperInit
    /\ IdentityInit
    /\ NftInit
    /\ AiInit
    /\ aiImpl = "robust"
    /\ NestInit
    /\ TweetInit
    /\ ChatInit
    /\ bImpl = "shadowbot"
    /\ DirectInit
    /\ pImpl = "polling"

SpecRetry == InitRetry /\ [][RetryNext]_vars

InitQueue ==
    /\ now = 0
    /\ RetryInit
    /\ rImpl = "service"
    /\ QueueInit
    /\ QuotaInit
    /\ PollInit
    /\ MentionInit
    /\ HelperInit
    /\ IdentityInit
    /\ NftInit
    /\ AiInit
    /\ aiImpl = "robust"
    /\ NestInit
    /\ TweetInit
    /\ ChatInit
    /\ bImpl = "shadowbot"
    /\ DirectInit
    /\ pImpl = "polling"

SpecQueue == InitQueue /\ [][QueueNext]_vars

\* one lane on its own: the operations submitted to a single endpoint
LaneNext ==
    \/ QueueTick
    \/ \E ep \in {"tweet"} : QSubmit(ep)
    \/ \E i \in OpIds : QWake(i)
    \/ \E i \in OpIds, out \in QOutcomes : QRespondFirst(i, out)
    \/ \E i \in OpIds : QRetry(i)
    \/ \E i \in OpIds, out \in QOutcomes : QRespondRetry(i, out)

SpecLane == InitQueue /\ [][LaneNext]_vars

InitQuota ==
    /\ now = 0
    /\ RetryInit
    /\ rImpl = "service"
    /\ QueueInit
    /\ QuotaInitUsed
    /\ PollInit
    /\ MentionInit
    /\ HelperInit
    /\ IdentityInit
    /\ NftInit
    /\ AiInit
    /\ aiImpl = "robust"
    /\ NestInit
    /\ TweetInit
    /\ ChatInit
    /\ bImpl = "shadowbot"
    /\ DirectInit
    /\ pImpl = "polling"

SpecQuota == InitQuota /\ [][QuotaNext]_vars

InitPoll ==
    /\ now = 0
    /\ RetryInit
    /\ rImpl = "service"
    /\ QueueInit
    /\ QuotaInit
    /\ PollInit
    /\ MentionInit
    /\ HelperInit
    /\ IdentityInit
    /\ NftInit
    /\ AiInit
    /\ aiImpl = "robust"
    /\ NestInit
    /\ TweetInit
    /\ ChatInit
    /\ bImpl = "shadowbot"
    /\ DirectInit

SpecPoll == InitPoll /\ [][PollNext]_vars

\* the same service, cleanup() being called at some point
ShutdownNext ==
    \/ PollNext
    \/ cleanup

SpecShutdown == InitPoll /\ [][ShutdownNext]_vars

InitMention ==
    /\ now = 0
    /\ RetryInit
    /\ rImpl = "service"
    /\ QueueInit
    /\ QuotaInit
    /\ PollInit
    /\ MentionInit
    /\ HelperInit
    /\ IdentityInit
    /\ NftInit
    /\ AiInit
    /\ aiImpl = "robust"
    /\ NestInit
    /\ TweetInit
    /\ ChatInit
    /\ bImpl = "shadowbot"
    /\ DirectInit

SpecMention == InitMention /\ [][MentionNext]_vars

\* the first cycle of a chain alone, from any stored cursor: a cycle depends on
\* the cycles before it through lastProcessedMentionId only
CycleNext ==
    \/ (mCycles = 0 /\ MentionPoll)
    \/ \E userId \in UserIds : MentionIdentified(userId)
    \/ \E ok, hasData \in BOOLEAN, batch \in Batches : MentionFetched(ok, hasData, batch)
    \/ \E userId \in UserIds, env \in HandleEnvs : MentionHandled(userId, env)
    \/ \E written \in BOOLEAN : MentionSaved(written)
    \/ MentionPaced
    \/ \E ok \in BOOLEAN, record \in MentionIds \cup {NoRecord} :
           loadLastProcessedMentionId(ok, record)

SpecCycle == InitMention /\ [][CycleNext]_vars

\* calls of the method TwitterService.handleMention beside the chain
DirectNext ==
    \/ \E id \in MentionIds, userId \in UserIds, env \in HandleEnvs :
           DirectCalled(id, userId, env)
    \/ \E written \in BOOLEAN : DirectSaved(written)

SpecDirect == InitMention /\ [][CycleNext \/ DirectNext]_vars

InitHelper ==
    /\ now = 0
    /\ RetryInit
    /\ rImpl = "service"
    /\ QueueInit
    /\ QuotaInit
    /\ PollInit
    /\ pImpl = "polling"
    /\ MentionInit
    /\ HelperInit
    /\ IdentityInit
    /\ NftInit
    /\ AiInit
    /\ aiImpl = "robust"
    /\ NestInit
    /\ TweetInit
    /\ ChatInit
    /\ bImpl = "shadowbot"
    /\ DirectInit

SpecHelper == InitHelper /\ [][HelperNext]_vars /\ HelperFairness

InitIdentity ==
    /\ now = 0
    /\ RetryInit
    /\ rImpl = "service"
    /\ QueueInit
    /\ QuotaInit
    /\ PollInit
    /\ pImpl = "polling"
    /\ MentionInit
    /\ HelperInit
    /\ IdentityInit
    /\ NftInit
    /\ AiInit
    /\ aiImpl = "robust"
    /\ NestInit
    /\ TweetInit
    /\ ChatInit
    /\ bImpl = "shadowbot"
    /\ DirectInit

SpecIdentity == InitIdentity /\ [][IdentityNext]_vars

InitNft ==
    /\ now = 0
    /\ RetryInit
    /\ rImpl = "service"
    /\ QueueInit
    /\ QuotaInit
    /\ PollInit
    /\ pImpl = "polling"
    /\ MentionInit
    /\ HelperInit
    /\ IdentityInit
    /\ NftInit
    /\ AiInit
    /\ aiImpl = "robust"
    /\ NestInit
    /\ TweetInit
    /\ ChatInit
    /\ bImpl = "shadowbot"
    /\ DirectInit

SpecNft == InitNft /\ [][NftNext]_vars

InitAi ==
    /\ now = AiStartMs
    /\ RetryInit
    /\ rImpl = "service"
    /\ QueueInit
    /\ QuotaInit
    /\ PollInit
    /\ pImpl = "polling"
    /\ MentionInit
    /\ HelperInit
    /\ IdentityInit
    /\ NftInit
    /\ AiInit
    /\ aiImpl \in AiImpls
    /\ NestInit
    /\ TweetInit
    /\ ChatInit
    /\ bImpl = "shadowbot"
    /\ DirectInit

SpecAi == InitAi /\ [][AiNext]_vars

InitNest ==
    /\ now = 0
    /\ RetryInit
    /\ rImpl = "service"
    /\ QueueInit
    /\ QuotaInit
    /\ PollInit
    /\ pImpl = "polling"
    /\ MentionInit
    /\ HelperInit
    /\ IdentityInit
    /\ NftInit
    /\ AiInit
    /\ aiImpl = "robust"
    /\ NestInit
    /\ TweetInit
    /\ ChatInit
    /\ bImpl = "shadowbot"
    /\ DirectInit

SpecNest == InitNest /\ [][NestNext]_vars /\ NestFairness

InitTweet ==
    /\ now = 0
    /\ RetryInit
    /\ rImpl = "service"
    /\ QueueInit
    /\ QuotaInit
    /\ PollInit
    /\ pImpl = "polling"
    /\ MentionInit
    /\ HelperInit
    /\ IdentityInit
    /\ NftInit
    /\ AiInit
    /\ aiImpl = "robust"
    /\ NestInit
    /\ TweetInit
    /\ ChatInit
    /\ bImpl = "shadowbot"
    /\ DirectInit

SpecTweet == InitTweet /\ [][TweetNext]_vars

InitChat ==
    /\ now = ChatStartMs
    /\ RetryInit
    /\ rImpl = "service"
    /\ QueueInit
    /\ QuotaInit
    /\ PollInit
    /\ pImpl = "polling"
    /\ MentionInit
    /\ HelperInit
    /\ IdentityInit
    /\ NftInit
    /\ AiInit
    /\ aiImpl = "robust"
    /\ NestInit
    /\ TweetInit
    /\ ChatInit
    /\ bImpl \in BotImpls
    /\ DirectInit

SpecChat == InitChat /\ [][ChatNext]_vars

---------------------------------------------------------------------------
(* Claims about retryFetch *)

SettledAttempts == {k \in 1..Len(rAttempts) : rAttempts[k].out # NoOutcome}
RfSettled == rPc \in {"returned", "thrown"}

\* C3: in the service's retryFetch, after an attempt failed with a 429 that
\* carries a reset time R (seconds), the next attempt does not start before
\* R * 1000 + 1000 ms, and if that attempt succeeds its value is what
\* retryFetch returns.
C3_NextAttemptAfterResetPlusBuffer ==
    rImpl = "service" =>
        \A k \in 1..(Len(rAttempts) - 1) :
            (rAttempts[k].out.code = 429 /\ rAttempts[k].out.rl) =>
                /\ rAttempts[k + 1].at >= rAttempts[k].out.reset * 1000 + 1000
                /\ rAttempts[k + 1].out.ok =>
                       (rPc = "returned" /\ rResult = rAttempts[k + 1].out)

C3_Witness ==
    /\ rImpl = "service"
    /\ Len(rAttempts) = 2
    /\ rAttempts[1].out = Err429(2)
    /\ rAttempts[1].at = 1000
    /\ rAttempts[2].out = Ok
    /\ rPc = "returned"
    /\ rResult = Ok

\* C4: with maxRetries = 3, when every attempt fails with a 429 that carries
\* no rate-limit metadata, exactly 3 attempts are made and the call then
\* fails with a rate-limit error.
C4_BareThrottleThreeAttempts ==
    (/\ RfSettled
     /\ rAttempts # <<>>
     /\ \A k \in 1..Len(rAttempts) : IsThrottle(rAttempts[k].out) /\ ~rAttempts[k].out.rl)
        => (/\ Len(rAttempts) = 3
            /\ rPc = "thrown"
            /\ IsThrottle(rResult))

\* C5: an attempt that fails with an error other than a 429 is the last
\* attempt: retryFetch throws that error at once.
C5_NoRetryOnOtherError ==
    \A k \in SettledAttempts :
        (~rAttempts[k].out.ok /\ rAttempts[k].out.code # 429) =>
            (/\ k = Len(rAttempts)
             /\ rPc = "thrown"
             /\ rResult = rAttempts[k].out)

---------------------------------------------------------------------------
(* Claims about the lanes of RateLimitManager and the setupPolling of src/xHandler.js *)

\* an operation is executing from the first call of operation() until it settles
QExecuting(i) == qOps[i].pc \in {"run", "backoff"}

\* C1: at any instant at most one operation per endpoint is executing
\* (started and not yet settled, its retries and their waits included).
C1_OneExecutingPerEndpoint ==
    \A ep \in Endpoints :
        Cardinality({i \in OpIds : qOps[i].ep = ep /\ QExecuting(i)}) <= 1

\* C2: the operations of one endpoint start in the order of their submission
\* (ids are given in submission order), also while a rate-limit wait is pending.
C2_StartInSubmissionOrder ==
    \A a, b \in 1..Len(qStarted) :
        (a < b /\ qOps[qStarted[a]].ep = qOps[qStarted[b]].ep) => qStarted[a] < qStarted[b]

\* C10 (src/xHandler.js): once a poll cycle has settled, a next cycle is
\* scheduled: a timer for setupPolling is pending.
C10_NextCycleScheduled ==
    (xsPc \notin {"idle", "awaiting"}) => (xsPc = "scheduled" /\ xsTimer # NoTimer)

---------------------------------------------------------------------------
(* Claims about the quota counters *)

\* C6: within one calendar day, once floor(dailyPostLimit * dailyPostRatio) posts
\* have been successfully posted the next postTweet is rejected, and once
\* floor(dailyPostLimit * dailyReplyRatio) replies have been successfully
\* posted the next replyToTweet is rejected.
C6_SubcategoryCapsReject ==
    /\ (lastCheck.kind \in PostTweetKinds /\ lastCheck.sentPosts >= maxDailyPosts)
           => ~lastCheck.admitted
    /\ (lastCheck.kind \in ReplyKinds /\ lastCheck.sentReplies >= maxDailyReplies)
           => ~lastCheck.admitted

\* C7: the first quota check (postTweet, postImage or replyToTweet) made after
\* the day of the month changed is evaluated against daily counters equal to zero.
C7_FirstCheckAfterDayChangeSeesZero ==
    (lastCheck.kind \in PostTweetKinds \cup ReplyKinds \cup {"postImage"} /\ lastCheck.first)
        => lastCheck.daily = <<0, 0, 0>>

\* C8 as stated: a rejected quota check makes no remote call, starts no retry,
\* and every quota counter keeps its value.
C8_RejectionKeepsEveryCounter ==
    [][(nChecks' = nChecks + 1 /\ ~lastCheck'.admitted)
          => (inflight' = inflight /\ Counters(svc') = Counters(svc))]_vars

\* C8 amended: a rejected quota check makes no remote call and starts no retry,
\* and no quota counter is incremented: a counter either keeps its value or is
\* zeroed by the calendar reset that precedes the check, which happens only
\* when today's date differs from the counter's reset stamp.
C8_RejectionOnlyResets ==
    [][(nChecks' = nChecks + 1 /\ ~lastCheck'.admitted)
          => /\ inflight' = inflight
             /\ \/ DailyCounters(svc') = DailyCounters(svc)
                \/ /\ DailyCounters(svc') = <<0, 0, 0>>
                   /\ today # svc.lastDailyReset
             /\ \/ svc'.monthlyReads = svc.monthlyReads
                \/ /\ svc'.monthlyReads = 0
                   /\ today # svc.lastMonthlyReset]_vars

\* a fetchRelevantPosts was rejected at the monthly cap after its reset zeroed
\* the daily counters
C8_Witness ==
    /\ lastCheck.kind = "fetch"
    /\ ~lastCheck.admitted
    /\ lastCheck.reset
    /\ svc.monthlyReads = monthlyReadLimit
    /\ InFlightTotal = 0

---------------------------------------------------------------------------
(* Claims about mention polling *)

PollInFlight(c) == pChains[c].pc \in {"fetching", "handling", "pacing", "cooling"}

\* C9: at any instant at most one mention-poll cycle is in flight (fetching or
\* processing), after any number of setupPolling rounds and reschedulings.
C9_AtMostOneCycleInFlight ==
    Cardinality({c \in Chains : PollInFlight(c)}) <= 1

\* the delay the claim gives for a cycle that ended with the error err
C11Delay(err) ==
    IF err.rl THEN Max(0, (err.reset * 1000) - now) ELSE PollTimeoutMs

\* C11: the next poll is scheduled max(0, reset - now) after a cycle that failed
\* with an error carrying a rate-limit reset time, and the default interval
\* after every other cycle (a timer of less than 1 ms fires after 1 ms).
C11_NextPollDelay ==
    [][\A c \in Chains :
          (pChains[c].pc # "scheduled" /\ pChains'[c].pc = "scheduled")
              => pChains'[c].timer = now + TimerDelay(C11Delay(pChains'[c].err))]_vars

\* a cycle failed with a reset time already past and the next poll is due in 1 ms;
\* another fetched a page of no mention, ended in the catch block with the
\* TypeError of the for statement, and the next poll is due in 60 s
C11_Witness ==
    /\ pChains[1].pc = "scheduled"
    /\ pChains[1].err.rl
    /\ pChains[1].err.reset * 1000 < now
    /\ pChains[1].timer = now + 1
    /\ pChains[2].pc = "scheduled"
    /\ pChains[2].raised = "loop"
    /\ ~pChains[2].err.rl
    /\ pChains[2].timer = now + PollTimeoutMs

PendingPollTimers ==
    {t \in {pChains[c].timer : c \in Chains} \cup {spTimer} : t # NoTimer}

\* C13: the delay scheduled for the next poll cycle never exceeds 3,600,000 ms,
\* whatever cycles preceded it and whatever reset time the provider reported:
\* no pending timer is due later than 3,600,000 ms from now.
C13_DelayNeverExceedsCap ==
    \A t \in PendingPollTimers : t <= now + MaxPollingInterval

\* C19: no error raised while fetching or handling mentions propagates out of the
\* poll loop: the promise of poll() is never rejected.
C19_NoErrorLeavesPoll ==
    \A c \in Chains : pChains[c].pc # "rejected"

\* one chain caught the TypeError its for statement threw over a fetched page
\* without a data array, another the error handleMention threw, and both have
\* their next poll scheduled
C19_Witness ==
    /\ pChains[1].pc = "scheduled" /\ pChains[1].raised = "loop"
    /\ pChains[2].pc = "scheduled" /\ pChains[2].raised = "handle"
    /\ pChains[1].timer # NoTimer /\ pChains[2].timer # NoTimer

---------------------------------------------------------------------------
(* Claims about the handling of the mentions of one cycle *)
HandlingFailed(e) == e.outcome \in {"threw", "failed"}
CycleOver == mPc = "idle" /\ Len(mBatch) > 0
Advances == {k \in DOMAIN mLog : mLog[k].advanced}
LastOf(S) == CHOOSE k \in S : \A j \in S : j <= k

\* C14: when the handling of a mention of a cycle fails, the cycle still handles the
\* mentions after it, records no cursor advance for the failed one, keeps the advances
\* made before, and ends with the cursor at the last mention handled successfully.
C14_FailureDoesNotStopCycle ==
    CycleOver =>
        /\ (\E k \in DOMAIN mLog : HandlingFailed(mLog[k])) => Len(mLog) = Len(mBatch)
        /\ \A k \in DOMAIN mLog : HandlingFailed(mLog[k]) => ~mLog[k].advanced
        /\ Advances # {} => lastProcessedMentionId = mLog[LastOf(Advances)].id

SelfAuthored(id) == Mention(id).author_id = BotId
RepliesToBot(id) == Mention(id).replied_to = BotId

\* C15: no reply is ever posted to a mention that the bot authored nor to a mention
\* that replies to a tweet the bot authored, also when the identity lookup fails or
\* the cached identity has expired.
C15_NoReplyToSelf ==
    \A id \in MentionIds :
        (SelfAuthored(id) \/ RepliesToBot(id)) => mReplies[id] = 0

---------------------------------------------------------------------------
(* Claims about the retry helpers *)
HelperSettled(c) == hCalls[c].pc \in {"returned", "thrown"}

\* C16: every operation executed through a retry helper (retryFetch,
\* executeWithRateLimit, makeRequest) settles, with a result or an error, after a
\* bounded number of attempts, even if every attempt is throttled.
C16_EveryHelperCallSettles ==
    \A c \in HelperCalls : (hCalls[c].pc = "calling") ~> HelperSettled(c)

---------------------------------------------------------------------------
(* Claims about the daily cap *)
PostTypeKinds == PostTweetKinds \cup ReplyKinds \cup {"postImage"}

\* C17: once the posts, image posts and replies performed today reach dailyPostLimit,
\* every further postTweet, postImage or replyToTweet of that day is rejected.
C17_DailyCapRejects ==
    (/\ lastCheck.kind \in PostTypeKinds
     /\ lastCheck.sentPosts + lastCheck.sentImages + lastCheck.sentReplies >= dailyPostLimit)
        => ~lastCheck.admitted

\* C18: under any interleaving of concurrent replyToTweet calls (likewise postImage),
\* the calls that pass the quota check and are sent, as the service counts them,
\* never exceed the cap.
C18_ConcurrentCallsWithinCap ==
    /\ svc.dailyRepliesUsed <= maxDailyReplies
    /\ svc.dailyPosts <= dailyPostLimit

---------------------------------------------------------------------------
(* Claims about the identity cache *)
\* an id is stored and less than ttl has elapsed since it was stored
C20Stored == userCache.userId # NoUser /\ now - userCache.lastFetched < userCacheTtl

\* C20: getCachedUserId returns the stored id without a remote call when an id is
\* stored and less than ttl has elapsed since it was stored; otherwise it makes one
\* remote identity call and, on success, stores the result with the current time.
C20_CachedWithinTtl ==
    [][\A c \in IdCalls :
          /\ (idCalls[c].pc = "idle" /\ idCalls'[c].pc # "idle") =>
                 IF C20Stored
                 THEN /\ idCalls'[c] = [pc |-> "done", result |-> userCache.userId,
                                        remote |-> 0]
                      /\ userCache' = userCache
                 ELSE idCalls'[c].pc = "awaiting" /\ idCalls'[c].remote = 1
          /\ (idCalls[c].pc = "awaiting" /\ idCalls'[c].pc = "done") =>
                 /\ idCalls'[c].remote = 1
                 /\ idCalls'[c].result # NoUser =>
                        userCache' = [userId |-> idCalls'[c].result, lastFetched |-> now]
                 /\ idCalls'[c].result = NoUser => userCache' = userCache]_vars

\* one call was served from the cache, another found the id stored exactly ttl
\* earlier (or none stored), made its remote call and stored the result just now
C20_Witness ==
    /\ idCalls[1] = [pc |-> "done", result |-> BotId, remote |-> 0]
    /\ idCalls[2] = [pc |-> "done", result |-> BotId, remote |-> 1]
    /\ idCalls[3] = [pc |-> "done", result |-> BotId, remote |-> 1]
    /\ userCache = [userId |-> BotId, lastFetched |-> now]
    /\ now = userCacheTtl

\* C21: within one calendar month, once monthlyReadLimit timeline reads have been
\* counted fetchRelevantPosts makes no further remote timeline read until the month
\* changes, and the remote timeline reads made in a month never exceed
\* monthlyReadLimit.
C21_MonthlyReadsWithinCap ==
    /\ sentReads <= monthlyReadLimit
    /\ (lastCheck.kind = "fetch" /\ lastCheck.reads >= monthlyReadLimit)
           => ~lastCheck.admitted

---------------------------------------------------------------------------
(* Claims about postNFTImage *)
\* C22: for any sequence and interleaving of postNFTImage calls an NFT with a given
\* mint is posted at most once, and a call for a mint already posted returns null
\* without posting.
C22_MintPostedOnce ==
    \A mint \in Mints : nftPosts[mint] <= 1

---------------------------------------------------------------------------
(* Further claims about the lanes of RateLimitManager *)
\* operation() of submission i is invoked in this step, for the first time or again
AttemptStarts(i) ==
    /\ qOps'[i].pc = "run"
    /\ i > Len(qOps) \/ qOps[i].pc # "run"

\* C23: executeWithRateLimit never starts an attempt, the first one or a retry, on
\* an endpoint whose recorded state has remaining = 0 and a reset time in the future
\* before that reset time plus the 1000 ms safety buffer: in particular, never while
\* the recorded reset time is still ahead.
C23_NoAttemptBeforeReset ==
    [][\A i \in 1..Len(qOps') :
          AttemptStarts(i) => ~LimitActive(qOps'[i].ep)]_vars

---------------------------------------------------------------------------
(* Further claims about retryFetch *)
AllThrottledWithReset ==
    /\ Len(rAttempts) = maxRetries
    /\ \A k \in 1..maxRetries : rAttempts[k].out.code = 429 /\ rAttempts[k].out.rl

\* C24: when all maxRetries attempts of the service's retryFetch are throttled
\* with reset metadata, retryFetch does not return (neither a value nor
\* undefined): it throws, and the error thrown is the one of the last attempt,
\* carrying the reset time observed on that attempt.
C24_ExhaustedThrowsLastReset ==
    (rImpl = "service" /\ AllThrottledWithReset) =>
        /\ rPc # "returned"
        /\ RfSettled =>
              /\ rPc = "thrown"
              /\ rResult = rAttempts[maxRetries].out
              /\ rResult.reset = rAttempts[maxRetries].out.reset

C24_Witness ==
    /\ rImpl = "service"
    /\ AllThrottledWithReset
    /\ rPc = "thrown"
    /\ rAttempts[1].out.reset # rAttempts[maxRetries].out.reset
    /\ rResult.reset = rAttempts[maxRetries].out.reset

\* operation i settles in this step
SettlesNow(i) ==
    /\ qOps'[i].pc \in {"done", "failed"}
    /\ i > Len(qOps) \/ ~QSettled(i)

\* C25: a failed operation leaves the other operations of its lane alone: an
\* operation settles only when its own operation() has answered, the step that
\* settles one operation (with a failure or not) changes no other operation,
\* and every operation that has not settled, submitted before or after a
\* failure, is running or waits on a timer of its own.
C25_FailureDoesNotPoisonLane ==
    [][/\ \A i \in 1..Len(qOps') :
             SettlesNow(i) =>
                 /\ i <= Len(qOps)
                 /\ qOps[i].pc = "run"
                 /\ \A k \in OpIds \ {i} : qOps'[k] = qOps[k]
       /\ \A i \in 1..Len(qOps') :
             \/ qOps'[i].pc \in {"run", "done", "failed"}
             \/ qOps'[i].pc \in {"wait", "backoff"} /\ qOps'[i].timer # NoTimer]_vars

\* three operations on one endpoint: the second failed, the first and the
\* third succeeded
C25_Witness ==
    /\ Len(qOps) = 3
    /\ \A i \in 1..3 : qOps[i].ep = "tweet"
    /\ qOps[2].pc = "failed" /\ qOps[2].result = ErrOther
    /\ qOps[1].pc = "done" /\ qOps[1].result = Ok
    /\ qOps[3].pc = "done" /\ qOps[3].result = Ok
    /\ qStarted = <<1, 2, 3>>

\* a response carrying rate-limit metadata (error.rateLimit) is received for
\* operation i in this step, on its first attempt or on a retry
MetaResponse(i, out) ==
    /\ out.rl
    /\ QRespondFirst(i, out) \/ QRespondRetry(i, out)

\* C30: after any response carrying rate-limit metadata (first attempt or
\* retry), the stored rate-limit state of the endpoint is the metadata of
\* that response, the most recent one.
C30_StoredStateIsLatest ==
    [][\A i \in OpIds, out \in QOutcomes :
          MetaResponse(i, out) =>
              /\ qLimits'[qOps[i].ep].set
              /\ qLimits'[qOps[i].ep].reset = out.reset * 1000]_vars

---------------------------------------------------------------------------
(* Further claims about the mention cycle *)
\* a reply to mention id is posted in this step
ReplyPosted(id) == mReplies'[id] > mReplies[id]

\* C26: across poll cycles the handler replies at most once to a mention: no
\* reply is posted to a mention that was already replied to, and none to the
\* mention the recorded cursor points at, which a later cycle neither fetches
\* nor handles again.
C26_NoSecondReply ==
    [][\A id \in MentionIds :
          ReplyPosted(id) =>
              /\ mReplies[id] = 0
              /\ lastProcessedMentionId # id]_vars

\* C27: once the service is initialized, lastProcessedMentionId is set to a
\* mention's id only by a handling of that mention that ran to its end (reply
\* attempted, storeTweet called, no exception): never for a mention that was
\* skipped, for which no content was composed, or whose handling threw. This
\* holds of the handling by the poll loop and of the method of the service.
C27_CursorOnlyAfterHandled ==
    [][/\ \A k \in DOMAIN mLog' : mLog'[k].advanced => mLog'[k].outcome = "handled"
       /\ direct'.advanced => direct'.outcome = "handled"
       /\ ((mCycles > 0 \/ dCalls > 0) /\ lastProcessedMentionId' # lastProcessedMentionId) =>
             \/ /\ mPc = "saving"
                /\ mLog'[Len(mLog')].id = lastProcessedMentionId'
                /\ mLog'[Len(mLog')].outcome = "handled"
                /\ mLog'[Len(mLog')].advanced
             \/ /\ dPc = "saving"
                /\ direct'.id = lastProcessedMentionId'
                /\ direct'.outcome = "handled"
                /\ direct'.advanced]_vars


---------------------------------------------------------------------------
(* Further claims about the poll cycle *)
\* the delay the loop of poll() is written to wait after a mention
PacingDelay == IF pImpl = "part001" THEN Part001PacingMs ELSE MentionPacingMs

\* C28: within one cycle the mentions are handled one at a time, in the order
\* of the fetch: the first handler is for the first mention of the page; when
\* handleMention has settled the loop waits the pacing delay, and the handler
\* of the mention next in the page starts only when that wait, begun when the
\* previous handling settled, is over. (part_001 passes over a mention of the
\* bot's own without a handler and without a wait.)
C28_OneAtATimeWithPacing ==
    [][\A c \in Chains :
          /\ (pChains[c].pc = "fetching" /\ pChains'[c].pc = "handling") =>
                 /\ pChains'[c].idx = 1
                 /\ Len(pChains'[c].batch) >= 1
          /\ (pChains[c].pc = "handling" /\ pChains'[c].pc = "pacing") =>
                 /\ pChains'[c].timer >= now + PacingDelay
                 /\ pChains'[c].idx = pChains[c].idx
                 /\ pChains'[c].batch = pChains[c].batch
          /\ (pChains[c].pc = "pacing" /\ pChains'[c].pc = "handling") =>
                 /\ now >= pChains[c].timer
                 /\ pChains'[c].idx = pChains[c].idx + 1
                 /\ pChains'[c].batch = pChains[c].batch
          /\ (pChains[c].pc = "handling" /\ pChains'[c].pc = "handling") =>
                 /\ pChains'[c].idx \in {pChains[c].idx, pChains[c].idx + 1}
                 /\ pChains'[c].batch = pChains[c].batch
          /\ (pChains[c].pc # "handling" /\ pChains'[c].pc = "handling") =>
                 pChains[c].pc \in {"fetching", "pacing"}
          /\ pChains'[c].pc = "handling" => pChains'[c].idx \in DOMAIN pChains'[c].batch]_vars

\* the fetch of the first cycle returned the mentions 2 and 1 in this order;
\* mention 2 has been handled, and the handler of mention 1 starts when the
\* pacing wait after it ends
C28_Witness ==
    /\ pChains[1].pc = "handling"
    /\ pChains[1].cycles = 1
    /\ pChains[1].batch = <<2, 1>>
    /\ pChains[1].idx = 2
    /\ now = PacingDelay

\* C29: after cleanup() has been called no further poll cycle is started (a
\* cycle in flight at that time goes on to its end).
C29_NoCycleAfterCleanup ==
    [][spCleaned => \A c \in Chains : pChains'[c].cycles = pChains[c].cycles]_vars

\* C31: a failure while persisting a rate-limit observation never changes the
\* outcome of retryFetch: when storeRateLimit settles, failed or not, no
\* attempt is added or dropped, and the call goes on to the same wait, or to
\* throwing the error of the last attempt, as the state before the write
\* determines.
C31_StoreFailureChangesNothing ==
    [][(rPc = "store" /\ rPc' # "store") =>
          /\ rAttempts' = rAttempts
          /\ rI' = rI
          /\ IF rI < maxRetries - 1
             THEN /\ rPc' = "sleep"
                  /\ rTimer' = now + TimerDelay(rWaitTime)
                  /\ rResult' = rResult
             ELSE /\ rPc' = "thrown"
                  /\ rResult' = rAttempts[Len(rAttempts)].out]_vars

\* the write failed after the first throttled attempt, and the second attempt
\* succeeded and was returned
C31_Witness ==
    /\ rImpl = "service"
    /\ rStoreFailed
    /\ Len(rAttempts) = 2
    /\ rAttempts[1].out.code = 429 /\ rAttempts[1].out.rl
    /\ rPc = "returned"
    /\ rResult = Ok

---------------------------------------------------------------------------
(* Claims about AIHandler *)
\* C32: for any interleaving of concurrent generateResponse and
\* generateCompletion calls, two requests are never released by
\* waitForRateLimit less than interval / requests milliseconds apart: a call is
\* released no sooner after the release before it than the minInterval it
\* computed from the limits in force when it was made.
C32_ReleasesSpaced ==
    [][\A c \in AiCalls :
          (aiCalls[c].pc # "released" /\ aiCalls'[c].pc = "released"
              /\ Len(aiReleases) > 0)
          => now - aiReleases[Len(aiReleases)] >= aiCalls'[c].minInterval]_vars

---------------------------------------------------------------------------
(* Claims about nested operations on one lane *)
\* C33: a handleMention call, running on the 'reply' lane, that submits
\* replyToTweet to the same lane and awaits it eventually settles: the lane
\* does not deadlock.
C33_NestedCallSettles ==
    \A c \in NestCalls : (nCalls[c].pc # "idle") ~> NestSettled(c)

\* the reply was throttled, retried and sent, and handleMention returned it
C33_Witness ==
    \E c \in NestCalls :
        /\ nCalls[c].pc = "done"
        /\ nCalls[c].inner = "done"
        /\ nCalls[c].retries >= 1

\* C34: at every point dailyRepliesUsed (dailyPostsUsed) equals the number of
\* replies (new posts) successfully sent since the last daily reset; stated for
\* the construction day, on which the counters were zeroed by the constructor
\* and no reset is due.
C34_CountersMatchSends ==
    today = ConstructionDate
        => (svc.dailyRepliesUsed = sentReplies /\ svc.dailyPostsUsed = sentPosts)

\* C35: a quota check that runs on a calendar date different from the date of
\* the last daily reset, the same day of a later month included, is evaluated
\* against daily counters zeroed before the check: the counters it reads hold
\* no usage of another date, that is no more than was sent on the date of the check.
C35_CheckOnOtherDateSeesZero ==
    [][(nChecks' = nChecks + 1 /\ svc.lastDailyReset # today)
          => /\ lastCheck'.daily[1] <= sentImages
             /\ lastCheck'.daily[2] <= sentPosts
             /\ lastCheck'.daily[3] <= sentReplies]_vars

\* C36: lastProcessedMentionId never moves backwards: once set to a mention it
\* is never later set to an older one (a smaller id), whatever the order of the
\* fetched mentions.
C36_CursorNeverMovesBack ==
    [][lastProcessedMentionId' >= lastProcessedMentionId]_vars

\* C37: saveLastProcessedMentionId assigns the in-memory cursor only after the
\* write to storage has succeeded; when the write fails the cursor keeps its
\* value and no error reaches the caller: handleMention returns and the loop
\* goes on to its pacing wait.
C37_CursorOnlyAfterWrite ==
    [][(mPc = "saving" /\ mPc' # "saving")
          => /\ lastProcessedMentionId' =
                    IF mLog'[Len(mLog')].written
                    THEN mLog'[Len(mLog')].id ELSE lastProcessedMentionId
             /\ mPc' = "pacing"
             /\ mEnd' = mEnd]_vars

\* the save of a first mention, for which no tweet was composed, succeeded and
\* set the cursor; a second mention was handled and replied to, its write
\* failed, and the cursor still names the first
C37_Witness ==
    /\ Len(mLog) = 2
    /\ mLog[1].outcome = "nocontent"
    /\ mLog[1].written
    /\ mLog[1].advanced
    /\ mLog[2].outcome = "handled"
    /\ mLog[2].replied
    /\ ~mLog[2].written
    /\ ~mLog[2].advanced
    /\ lastProcessedMentionId = mLog[1].id
    /\ mPc = "pacing"

\* C38: generateTweet returns success: true with a tweet text only if the
\* completion call it rests on succeeded: a failed completion never yields a
\* text to post.
C38_SuccessOnlyFromCompletion ==
    gt.result.success => gt.completed

\* C39: under any interleaving of handleMessage invocations, every message of
\* another user appended to messageCache is part of the prompt of some
\* generateResponse call before it is removed from the cache.
C39_NoMessageDroppedUnseen ==
    [][\A m \in Range(messageCache) : m \notin Range(messageCache') => m \in bPrompted]_vars

=============================================================================
